---- MODULE Spec2Model ----
(***************************************************************************)
(* Stock ledger, aid workflow and finance workflow of selsebil_v2          *)
(* (apps/inventory, apps/aid, apps/finance), modelled as state machines    *)
(* over the database rows the handlers read and write.                     *)
(*                                                                         *)
(* Decimal(12,2) quantities and amounts are counted in whole units.        *)
(* A Django model instance is an in-memory copy of a row; save() writes    *)
(* the copy back, so every method is an operator from an instance to the   *)
(* instance it leaves behind, and the action that calls it stores the row. *)
(***************************************************************************)
EXTENDS Integers, Sequences, FiniteSets, TLC

\* ------------------------------------------------------------------ bounds
MaxInit == 2        \* largest stock_amount an Item starts with
MaxQty == 2         \* largest quantity / amount of one operation
MaxTime == 3        \* requests served in one run (the clock stops there)

VARIABLES
    item,           \* the inventory.Item row: [stock_amount, critical_level]
    movements,      \* the inventory.StockMovement rows, in order of creation (pk = index)
    initial_stock,  \* the stock_amount the Item row was created with
    proc,           \* concurrent requests creating a StockMovement: position and instances held
    transactions,   \* the finance.Transaction rows, in order of creation (pk = index)
    cash_aids,      \* the finance.CashAid rows, by pk
    invoices,       \* the finance.PendingInvoice rows, by pk
    aid_requests,   \* the aid.AidRequest rows, by pk
    aid_items,      \* the aid.AidItem rows, by pk
    stock_counts,   \* the inventory.StockCount rows, by pk
    count_items,    \* the inventory.StockCountItem rows, in order of creation (pk = index)
    budgets,        \* the finance.Budget rows, by pk
    item_pks,       \* the pks of the inventory.Item rows that exist
    family_pks,     \* the pks of the families.Family rows that exist
    site_settings,  \* the cms.SiteSettings rows, by pk
    settings_obj,   \* the SiteSettings instance a request holds in memory
    admin_proc,     \* concurrent admin requests running mark_as_paid: position and instances held
    op,             \* the handler that made the last step, with its inputs and return value
    now             \* timezone.now(): one tick per request served

invVars == <<item, movements, initial_stock>>
concVars == <<proc, admin_proc>>
finVars == <<transactions, cash_aids, invoices>>
aidVars == <<aid_requests, aid_items>>
countVars == <<stock_counts, count_items>>
budgetVars == <<budgets>>
refVars == <<item_pks, family_pks>>
cmsVars == <<site_settings, settings_obj>>
vars == <<invVars, concVars, finVars, aidVars, countVars, budgetVars, refVars, cmsVars, op, now>>

\* What the inventory handlers never touch.
notInventory == <<concVars, finVars, aidVars, countVars, budgetVars, refVars, cmsVars>>

\* Every request is served at a later time than the one before.
Tick == now <= MaxTime /\ now' = now + 1

\* ------------------------------------------------------- inventory/models.py
MovementType == {"in", "out", "adjustment", "transfer"}

NoOp == [name |-> "init", id |-> 0, arg |-> "", amount |-> 0, ret |-> "None"]

\* Item.increase_stock: add, then save().
increase_stock(self, amount) ==
    [obj |-> [self EXCEPT !.stock_amount = @ + amount], saved |-> TRUE, ret |-> "None"]

\* A decrease_stock that forgets the sufficiency test.
decrease_stock_unguarded(self, amount) ==
    [obj |-> [self EXCEPT !.stock_amount = @ - amount], saved |-> TRUE, ret |-> "True"]

\* A decrease_stock that refuses to take the last units (> for >=).
decrease_stock_strict(self, amount) ==
    IF self.stock_amount > amount
    THEN [obj |-> [self EXCEPT !.stock_amount = @ - amount], saved |-> TRUE, ret |-> "True"]
    ELSE [obj |-> self, saved |-> FALSE, ret |-> "False"]

\* A decrease_stock that subtracts in memory and never calls save().
decrease_stock_unsaved(self, amount) ==
    IF self.stock_amount >= amount
    THEN [obj |-> [self EXCEPT !.stock_amount = @ - amount], saved |-> FALSE, ret |-> "True"]
    ELSE [obj |-> self, saved |-> FALSE, ret |-> "False"]

\* Item.decrease_stock: subtract and save() when the stock suffices, else
\* touch nothing; returns whether it did.
decrease_stock(self, amount) ==
    IF self.stock_amount >= amount
    THEN [obj |-> [self EXCEPT !.stock_amount = @ - amount], saved |-> TRUE, ret |-> "True"]
    ELSE [obj |-> self, saved |-> FALSE, ret |-> "False"]

\* The branch of StockMovement.save that updates the stock of self.item.
ApplyMovement(self, it) ==
    CASE self.movement_type = "in" -> increase_stock(it, self.quantity)
      [] self.movement_type = "out" -> decrease_stock(it, self.quantity)
      [] self.movement_type = "adjustment" ->
            [obj |-> [it EXCEPT !.stock_amount = self.quantity], saved |-> TRUE, ret |-> "None"]
      [] self.movement_type = "transfer" -> decrease_stock(it, self.quantity)

\* StockMovement.save on instance self whose self.item is the instance it.
\* The return value of decrease_stock is dropped; the row is written either way.
StockMovement_save(self, it) ==
    LET is_new == self.pk = 0
        r == ApplyMovement(self, it)
    IN  IF is_new
        THEN [mv |-> [self EXCEPT !.stock_before = it.stock_amount,
                                  !.stock_after = r.obj.stock_amount],
              item |-> r.obj, item_saved |-> r.saved]
        ELSE [mv |-> self, item |-> it, item_saved |-> FALSE]

\* A StockMovement instance before its first save (defaults of lines 468-481).
NewMovement(t, q) ==
    [pk |-> 0, item |-> 1, movement_type |-> t, quantity |-> q, family |-> "None",
     stock_before |-> 0, stock_after |-> 0]

\* ----------------------------------------------------------------- actions
\* A new StockMovement of type t and quantity q is saved: the Item row is
\* written when the stock method saved it, and the movement row is inserted.
RecordMovement(t, q) ==
    /\ Tick
    /\ LET r == StockMovement_save(NewMovement(t, q), item)
       IN  /\ item' = IF r.item_saved THEN r.item ELSE item
           /\ movements' = Append(movements, [r.mv EXCEPT !.pk = Len(movements) + 1])
    /\ op' = [name |-> "StockMovement.save", id |-> Len(movements) + 1, arg |-> t,
              amount |-> q, ret |-> "None"]
    /\ UNCHANGED <<initial_stock, notInventory>>

\* item.increase_stock(amount) called on a freshly loaded Item.
IncreaseQuantity(amount) ==
    /\ Tick
    /\ LET r == increase_stock(item, amount)
       IN  item' = IF r.saved THEN r.obj ELSE item
    /\ op' = [name |-> "Item.increase_stock", id |-> 1, arg |-> "", amount |-> amount,
              ret |-> "None"]
    /\ UNCHANGED <<movements, initial_stock, notInventory>>

\* item.decrease_stock(amount) called on a freshly loaded Item.
DecreaseQuantity(amount) ==
    /\ Tick
    /\ LET r == decrease_stock(item, amount)
       IN  /\ item' = IF r.saved THEN r.obj ELSE item
           /\ op' = [name |-> "Item.decrease_stock", id |-> 1, arg |-> "",
                     amount |-> amount, ret |-> r.ret]
    /\ UNCHANGED <<movements, initial_stock, notInventory>>

\* ------------------------------------------------ rows present at the start
Users == {"u1", "u2"}
Families == {"f1", "f2"}
AidRequestIds == {1, 2}
CashAidIds == {1}
InvoiceIds == {1}
StockCountIds == {1}
BudgetIds == {1}
Procs == {1, 2}

\* An AidRequest as created: status defaults to pending, nobody has acted.
NewAidRequest ==
    [family |-> "f1", status |-> "pending",
     approved_by |-> "None", approved_at |-> 0, approval_notes |-> [prefix |-> "", text |-> ""],
     prepared_by |-> "None", prepared_at |-> 0,
     distributed_by |-> "None", distributed_at |-> 0,
     updated_by |-> "None"]

\* A CashAid as created.
NewCashAid(amount) ==
    [family |-> "f1", amount |-> amount, status |-> "pending",
     approved_by |-> "None", approved_at |-> 0, approval_notes |-> "",
     paid_by |-> "None", paid_at |-> 0, payment_method |-> "", payment_reference |-> "",
     account |-> 0]

\* A PendingInvoice as created.
NewPendingInvoice(amount) ==
    [amount |-> amount, status |-> "available",
     reserved_for |-> "None", reserved_at |-> 0, reserved_by |-> "None",
     used_by_family |-> "None", used_at |-> 0, used_by |-> "None", invoice_number |-> ""]

\* approved_quantity and distributed_quantity are null until someone sets them.
NoQuantity == -1

\* The AidItem of request r on the Item, as created: one unit requested.
NewAidItem(r) ==
    [aid_request |-> r, item |-> 1, requested_quantity |-> 1,
     approved_quantity |-> NoQuantity, distributed_quantity |-> NoQuantity]

\* A Budget as entered: the period and the two targets (default 0).
NewBudget(start_date, end_date, target_income, target_expense) ==
    [start_date |-> start_date, end_date |-> end_date,
     target_income |-> target_income, target_expense |-> target_expense]

\* A StockCount as created.
NewStockCount == [status |-> "planned", completed_at |-> 0]

\* The default of SiteSettings.site_name.
DefaultSiteName == "Selsebil Dernegi"

\* A SiteSettings instance: pk 0 is an instance that was never saved.
NewSiteSettings(pk, site_name) == [pk |-> pk, site_name |-> site_name]

\* An admin request that has not started: it holds no instance yet.
IdleAdmin == [pc |-> "idle", user |-> "None", todo |-> <<>>]

\* A request that has not started: it holds no instance yet.
IdleProc ==
    [pc |-> "idle", item |-> [stock_amount |-> 0, critical_level |-> 0],
     mv |-> NewMovement("in", 1), read_at |-> 0, saved_at |-> 0]

\* The tables and requests an inventory or workflow run leaves alone: the one
\* Item and both families exist, nothing was counted, no settings row yet.
InitUntouched ==
    /\ count_items = <<>>
    /\ item_pks = {1}
    /\ family_pks = Families
    /\ site_settings = <<>>
    /\ settings_obj = NewSiteSettings(0, DefaultSiteName)
    /\ admin_proc = [p \in Procs |-> IdleAdmin]

InitInventory ==
    /\ InitUntouched
    /\ item \in [stock_amount : 0..MaxInit, critical_level : {0}]
    /\ initial_stock = item.stock_amount
    /\ movements = <<>>
    /\ proc = [p \in Procs |-> IdleProc]
    /\ op = NoOp
    /\ now = 1

\* The workflow rows as they are when only the inventory is exercised.
InitWorkflowFixed ==
    /\ transactions = <<>>
    /\ cash_aids = [c \in CashAidIds |-> NewCashAid(1)]
    /\ invoices = [i \in InvoiceIds |-> NewPendingInvoice(1)]
    /\ aid_requests = [r \in AidRequestIds |-> NewAidRequest]
    /\ aid_items = [k \in AidRequestIds |-> NewAidItem(k)]
    /\ stock_counts = [c \in StockCountIds |-> NewStockCount]
    /\ budgets = [b \in BudgetIds |-> NewBudget(1, MaxTime, 0, 0)]

Init == InitInventory /\ InitWorkflowFixed

\* Ledger only: StockMovement rows recorded one after another.
NextLedger == \E t \in MovementType, q \in 1..MaxQty : RecordMovement(t, q)

SpecLedger == Init /\ [][NextLedger]_vars

\* Ledger and the Item stock methods.
Next ==
    \/ \E t \in MovementType, q \in 1..MaxQty : RecordMovement(t, q)
    \/ \E a \in 1..MaxQty : IncreaseQuantity(a)
    \/ \E a \in 1..MaxQty : DecreaseQuantity(a)

Spec == Init /\ [][Next]_vars

\* ------------------------------------------- concurrent StockMovement saves
\* Request p resolves the movement's item: the Item row is read into an
\* instance of the request's own (self.item).
ConcLoad(p, t, q) ==
    /\ proc[p].pc = "idle"
    /\ proc' = [proc EXCEPT ![p] = [pc |-> "loaded", item |-> item, mv |-> NewMovement(t, q),
                                    read_at |-> now, saved_at |-> 0]]
    /\ now' = now + 1
    /\ op' = [name |-> "StockMovement.item", id |-> p, arg |-> t, amount |-> q, ret |-> "None"]
    /\ UNCHANGED <<admin_proc, invVars, finVars, aidVars, countVars, budgetVars, refVars, cmsVars>>

\* Request p runs lines 498-518 of StockMovement.save on its instances: the
\* stock method writes the request's copy of the Item back to the row.
ConcApply(p) ==
    /\ proc[p].pc = "loaded"
    /\ LET r == StockMovement_save(proc[p].mv, proc[p].item)
       IN  /\ item' = IF r.item_saved THEN r.item ELSE item
           /\ proc' = [proc EXCEPT ![p].pc = "applied", ![p].item = r.item, ![p].mv = r.mv,
                                   ![p].saved_at = now]
    /\ now' = now + 1
    /\ op' = [name |-> "StockMovement.save", id |-> p, arg |-> proc[p].mv.movement_type,
              amount |-> proc[p].mv.quantity, ret |-> "None"]
    /\ UNCHANGED <<admin_proc, movements, initial_stock, finVars, aidVars, countVars,
                   budgetVars, refVars, cmsVars>>

\* Request p reaches super().save(): the movement row is inserted.
ConcInsert(p) ==
    /\ proc[p].pc = "applied"
    /\ movements' = Append(movements, [proc[p].mv EXCEPT !.pk = Len(movements) + 1])
    /\ proc' = [proc EXCEPT ![p].pc = "done", ![p].mv.pk = Len(movements) + 1]
    /\ now' = now + 1
    /\ op' = [name |-> "Model.save", id |-> p, arg |-> proc[p].mv.movement_type,
              amount |-> proc[p].mv.quantity, ret |-> "None"]
    /\ UNCHANGED <<admin_proc, item, initial_stock, finVars, aidVars, countVars,
                   budgetVars, refVars, cmsVars>>

NextConc ==
    \E p \in Procs :
        \/ \E t \in MovementType, q \in 1..MaxQty : ConcLoad(p, t, q)
        \/ ConcApply(p)
        \/ ConcInsert(p)

SpecConc == Init /\ [][NextConc]_vars

\* --------------------------------------------------------- aid/models.py
Notes == {"", "n1"}

\* What the methods and the admin actions of AidRequest never touch.
notAid == <<invVars, concVars, finVars, countVars, budgetVars, refVars, cmsVars, aid_items>>

\* An AidRequest.prepare that stamps the preparer but marks the request
\* distributed.
AidRequest_prepare_as_distributed(self, user) ==
    [self EXCEPT !.status = "distributed", !.prepared_by = user, !.prepared_at = now]

\* An AidRequest.approve that leaves a request that is not pending as it is.
AidRequest_approve_guarded(self, user, notes) ==
    IF self.status = "pending"
    THEN [self EXCEPT !.status = "approved", !.approved_by = user, !.approved_at = now,
                      !.approval_notes = [prefix |-> "", text |-> notes]]
    ELSE self

\* AidRequest.approve: no test of the current status.
AidRequest_approve(self, user, notes) ==
    [self EXCEPT !.status = "approved", !.approved_by = user, !.approved_at = now,
                 !.approval_notes = [prefix |-> "", text |-> notes]]

\* AidRequest.reject: stamps the approval fields with the rejecting user.
AidRequest_reject(self, user, reason) ==
    [self EXCEPT !.status = "rejected", !.approved_by = user, !.approved_at = now,
                 !.approval_notes = [prefix |-> "", text |-> reason]]

\* AidRequest.prepare
AidRequest_prepare(self, user) ==
    [self EXCEPT !.status = "prepared", !.prepared_by = user, !.prepared_at = now]

\* An AidRequest.distribute that also stamps the preparer.
AidRequest_distribute_stamps_prepared(self, user) ==
    [self EXCEPT !.status = "distributed", !.prepared_by = user,
                 !.distributed_by = user, !.distributed_at = now]

\* AidRequest.distribute
AidRequest_distribute(self, user) ==
    [self EXCEPT !.status = "distributed", !.distributed_by = user, !.distributed_at = now]

\* AidRequest.cancel: approval_notes = f"Iptal: {reason}".
AidRequest_cancel(self, user, reason) ==
    [self EXCEPT !.status = "cancelled",
                 !.approval_notes = [prefix |-> "Iptal: ", text |-> reason],
                 !.updated_by = user]

\* A filter that lets every selected row through, whatever its status.
filter_status_any(rows, queryset, statuses) == queryset \cap DOMAIN rows

\* queryset.filter(status__in=statuses) over the rows of a table.
filter_status(rows, queryset, statuses) ==
    {r \in queryset : rows[r].status \in statuses}

\* The method called directly on the AidRequest with pk r. The label of
\* approve also keeps the notes passed and the status the request had.
AidApprove(r, user, notes) ==
    /\ Tick
    /\ aid_requests' = [aid_requests EXCEPT ![r] = AidRequest_approve(@, user, notes)]
    /\ op' = [name |-> "AidRequest.approve", id |-> r, arg |-> user, amount |-> 0, ret |-> "None",
              notes |-> notes, was |-> aid_requests[r].status]
    /\ UNCHANGED notAid

AidReject(r, user, reason) ==
    /\ Tick
    /\ aid_requests' = [aid_requests EXCEPT ![r] = AidRequest_reject(@, user, reason)]
    /\ op' = [name |-> "AidRequest.reject", id |-> r, arg |-> user, amount |-> 0, ret |-> "None"]
    /\ UNCHANGED notAid

AidPrepare(r, user) ==
    /\ Tick
    /\ aid_requests' = [aid_requests EXCEPT ![r] = AidRequest_prepare(@, user)]
    /\ op' = [name |-> "AidRequest.prepare", id |-> r, arg |-> user, amount |-> 0, ret |-> "None"]
    /\ UNCHANGED notAid

AidDistribute(r, user) ==
    /\ Tick
    /\ aid_requests' = [aid_requests EXCEPT ![r] = AidRequest_distribute(@, user)]
    /\ op' = [name |-> "AidRequest.distribute", id |-> r, arg |-> user, amount |-> 0,
              ret |-> "None"]
    /\ UNCHANGED notAid

AidCancel(r, user, reason) ==
    /\ Tick
    /\ aid_requests' = [aid_requests EXCEPT ![r] = AidRequest_cancel(@, user, reason)]
    /\ op' = [name |-> "AidRequest.cancel", id |-> r, arg |-> user, amount |-> 0, ret |-> "None"]
    /\ UNCHANGED notAid

\* ---------------------------------------------------------- aid/admin.py
\* AidRequestAdmin.approve_selected on the selected rows.
AidAdmin_approve_selected(user, queryset) ==
    /\ Tick
    /\ LET hit == filter_status(aid_requests, queryset, {"pending"})
       IN  /\ aid_requests' = [r \in DOMAIN aid_requests |->
                                 IF r \in hit
                                 THEN AidRequest_approve(aid_requests[r], user, "Toplu onay")
                                 ELSE aid_requests[r]]
           /\ op' = [name |-> "AidRequestAdmin.approve_selected", id |-> 0, arg |-> user,
                     amount |-> Cardinality(hit), ret |-> "None"]
    /\ UNCHANGED notAid

\* AidRequestAdmin.reject_selected
AidAdmin_reject_selected(user, queryset) ==
    /\ Tick
    /\ LET hit == filter_status(aid_requests, queryset, {"pending"})
       IN  /\ aid_requests' = [r \in DOMAIN aid_requests |->
                                 IF r \in hit
                                 THEN AidRequest_reject(aid_requests[r], user, "Toplu red")
                                 ELSE aid_requests[r]]
           /\ op' = [name |-> "AidRequestAdmin.reject_selected", id |-> 0, arg |-> user,
                     amount |-> Cardinality(hit), ret |-> "None"]
    /\ UNCHANGED notAid

\* AidRequestAdmin.mark_as_prepared
AidAdmin_mark_as_prepared(user, queryset) ==
    /\ Tick
    /\ LET hit == filter_status(aid_requests, queryset, {"approved"})
       IN  /\ aid_requests' = [r \in DOMAIN aid_requests |->
                                 IF r \in hit
                                 THEN AidRequest_prepare(aid_requests[r], user)
                                 ELSE aid_requests[r]]
           /\ op' = [name |-> "AidRequestAdmin.mark_as_prepared", id |-> 0, arg |-> user,
                     amount |-> Cardinality(hit), ret |-> "None"]
    /\ UNCHANGED notAid

\* AidRequestAdmin.mark_as_distributed: approved and prepared rows alike.
AidAdmin_mark_as_distributed(user, queryset) ==
    /\ Tick
    /\ LET hit == filter_status(aid_requests, queryset, {"approved", "prepared"})
       IN  /\ aid_requests' = [r \in DOMAIN aid_requests |->
                                 IF r \in hit
                                 THEN AidRequest_distribute(aid_requests[r], user)
                                 ELSE aid_requests[r]]
           /\ op' = [name |-> "AidRequestAdmin.mark_as_distributed", id |-> 0, arg |-> user,
                     amount |-> Cardinality(hit), ret |-> "None"]
    /\ UNCHANGED notAid

\* An admin action runs on a non-empty selection of the rows listed.
Selections(rows) == SUBSET (DOMAIN rows) \ {{}}

AidDirect ==
    \E r \in DOMAIN aid_requests, u \in Users :
        \/ \E n \in Notes : AidApprove(r, u, n)
        \/ \E n \in Notes : AidReject(r, u, n)
        \/ AidPrepare(r, u)
        \/ AidDistribute(r, u)
        \/ \E n \in Notes : AidCancel(r, u, n)

AidAdmin ==
    \E u \in Users, qs \in Selections(aid_requests) :
        \/ AidAdmin_approve_selected(u, qs)
        \/ AidAdmin_reject_selected(u, qs)
        \/ AidAdmin_mark_as_prepared(u, qs)
        \/ AidAdmin_mark_as_distributed(u, qs)

NextAid == AidDirect \/ AidAdmin

InitInventoryFixed ==
    /\ InitUntouched
    /\ item = [stock_amount |-> MaxInit, critical_level |-> 0]
    /\ initial_stock = MaxInit
    /\ movements = <<>>
    /\ proc = [p \in Procs |-> IdleProc]
    /\ op = NoOp
    /\ now = 1

InitAid == InitInventoryFixed /\ InitWorkflowFixed

SpecAid == InitAid /\ [][NextAid]_vars

\* ------------------------------------------- distribution and the stock
\* AidItemAdmin change form on the AidItem with pk k: distributed_quantity
\* is an editable field, MinValueValidator(0).
AidItemAdmin_change(k, distributed_quantity) ==
    /\ Tick
    /\ distributed_quantity >= 0
    /\ aid_items' = [aid_items EXCEPT ![k].distributed_quantity = distributed_quantity]
    /\ op' = [name |-> "AidItemAdmin.save_model", id |-> k, arg |-> "",
              amount |-> distributed_quantity, ret |-> "None"]
    /\ UNCHANGED <<aid_requests, invVars, concVars, finVars, countVars, budgetVars, refVars, cmsVars>>

\* A request on its way to distribution, next to the stock movements and
\* the AidItem edits made by separate callers.
NextDistribute ==
    \/ \E r \in DOMAIN aid_requests :
          \/ AidApprove(r, "u1", "")
          \/ AidPrepare(r, "u1")
          \/ \E u \in Users : AidDistribute(r, u)
    \/ \E qs \in Selections(aid_requests) : AidAdmin_mark_as_distributed("u2", qs)
    \/ \E k \in DOMAIN aid_items, q \in 0..MaxQty : AidItemAdmin_change(k, q)
    \/ \E t \in MovementType, q \in 1..MaxQty : RecordMovement(t, q)

SpecDistribute == InitAid /\ [][NextDistribute]_vars

\* ----------------------------------------------------- finance/models.py
\* What the methods and the admin actions of CashAid and PendingInvoice
\* never touch.
notFinance == <<invVars, concVars, aidVars, countVars, budgetVars, refVars, cmsVars>>

\* The Transaction that CashAid.pay and PendingInvoice.use create: category
\* and transaction_date take their defaults.
NewTransaction(type, amount, account, cash_aid, pending_invoice, user) ==
    [pk |-> 0, transaction_type |-> type, amount |-> amount, category |-> "other",
     account |-> account, cash_aid |-> cash_aid, pending_invoice |-> pending_invoice,
     created_by |-> user, transaction_date |-> now]

\* Transaction.objects.create(...): the row is inserted with the next pk.
CreateTransaction(rows, tx) == Append(rows, [tx EXCEPT !.pk = Len(rows) + 1])

\* CashAid.approve
CashAid_approve(self, user, notes) ==
    [self EXCEPT !.status = "approved", !.approved_by = user, !.approved_at = now,
                 !.approval_notes = notes]

\* A CashAid.reject that assigns Status.CANCELLED for Status.REJECTED.
CashAid_reject_as_cancelled(self, user, reason) ==
    [self EXCEPT !.status = "cancelled", !.approved_by = user, !.approved_at = now,
                 !.approval_notes = reason]

\* CashAid.reject
CashAid_reject(self, user, reason) ==
    [self EXCEPT !.status = "rejected", !.approved_by = user, !.approved_at = now,
                 !.approval_notes = reason]

\* A CashAid.pay that silently skips an aid that is not approved.
CashAid_pay_guarded(self, pk, user, method, account, reference) ==
    IF self.status = "approved"
    THEN [obj |-> [self EXCEPT !.status = "paid", !.paid_by = user, !.paid_at = now,
                               !.payment_method = method, !.payment_reference = reference,
                               !.account = IF account # 0 THEN account ELSE @],
          created |-> <<NewTransaction("expense", self.amount, account, pk, 0, user)>>]
    ELSE [obj |-> self, created |-> <<>>]

\* A CashAid.pay whose Transaction is created without cash_aid=self.
CashAid_pay_unlinked(self, pk, user, method, account, reference) ==
    [obj |-> [self EXCEPT !.status = "paid", !.paid_by = user, !.paid_at = now,
                          !.payment_method = method, !.payment_reference = reference,
                          !.account = IF account # 0 THEN account ELSE @],
     created |-> <<NewTransaction("expense", self.amount, account, 0, 0, user)>>]

\* A CashAid.pay whose Transaction is created without account=account.
CashAid_pay_no_account(self, pk, user, method, account, reference) ==
    [obj |-> [self EXCEPT !.status = "paid", !.paid_by = user, !.paid_at = now,
                          !.payment_method = method, !.payment_reference = reference,
                          !.account = IF account # 0 THEN account ELSE @],
     created |-> <<NewTransaction("expense", self.amount, 0, pk, 0, user)>>]

\* CashAid.pay on the instance with primary key pk: the aid is saved as paid,
\* then one expense Transaction is created. No test of the current status.
CashAid_pay(self, pk, user, method, account, reference) ==
    [obj |-> [self EXCEPT !.status = "paid", !.paid_by = user, !.paid_at = now,
                          !.payment_method = method, !.payment_reference = reference,
                          !.account = IF account # 0 THEN account ELSE @],
     created |-> <<NewTransaction("expense", self.amount, account, pk, 0, user)>>]

\* PendingInvoice.reserve
PendingInvoice_reserve(self, family, user) ==
    [self EXCEPT !.status = "reserved", !.reserved_for = family, !.reserved_at = now,
                 !.reserved_by = user]

\* A PendingInvoice.use that books the Transaction as income.
PendingInvoice_use_as_income(self, pk, family, user, invoice_number) ==
    [obj |-> [self EXCEPT !.status = "used", !.used_by_family = family, !.used_at = now,
                          !.used_by = user, !.invoice_number = invoice_number],
     created |-> <<NewTransaction("income", self.amount, 0, 0, pk, user)>>]

\* PendingInvoice.use on the instance with primary key pk; the Transaction
\* is created without an account.
PendingInvoice_use(self, pk, family, user, invoice_number) ==
    [obj |-> [self EXCEPT !.status = "used", !.used_by_family = family, !.used_at = now,
                          !.used_by = user, !.invoice_number = invoice_number],
     created |-> <<NewTransaction("expense", self.amount, 0, 0, pk, user)>>]

\* PendingInvoice.mark_expired
PendingInvoice_mark_expired(self) == [self EXCEPT !.status = "expired"]

CashApprove(c, user, notes) ==
    /\ Tick
    /\ cash_aids' = [cash_aids EXCEPT ![c] = CashAid_approve(@, user, notes)]
    /\ op' = [name |-> "CashAid.approve", id |-> c, arg |-> user, amount |-> 0, ret |-> "None"]
    /\ UNCHANGED <<transactions, invoices, notFinance>>

CashReject(c, user, reason) ==
    /\ Tick
    /\ cash_aids' = [cash_aids EXCEPT ![c] = CashAid_reject(@, user, reason)]
    /\ op' = [name |-> "CashAid.reject", id |-> c, arg |-> user, amount |-> 0, ret |-> "None"]
    /\ UNCHANGED <<transactions, invoices, notFinance>>

CashPay(c, user, method, account) ==
    /\ Tick
    /\ LET r == CashAid_pay(cash_aids[c], c, user, method, account, "")
       IN  /\ cash_aids' = [cash_aids EXCEPT ![c] = r.obj]
           /\ transactions' = IF r.created = <<>> THEN transactions
                              ELSE CreateTransaction(transactions, r.created[1])
    /\ op' = [name |-> "CashAid.pay", id |-> c, arg |-> user, amount |-> 0, ret |-> "None",
              was |-> cash_aids[c].status, account |-> account]
    /\ UNCHANGED <<invoices, notFinance>>

InvoiceReserve(i, family, user) ==
    /\ Tick
    /\ invoices' = [invoices EXCEPT ![i] = PendingInvoice_reserve(@, family, user)]
    /\ op' = [name |-> "PendingInvoice.reserve", id |-> i, arg |-> family, amount |-> 0,
              ret |-> "None"]
    /\ UNCHANGED <<transactions, cash_aids, notFinance>>

InvoiceUse(i, family, user) ==
    /\ Tick
    /\ LET r == PendingInvoice_use(invoices[i], i, family, user, "")
       IN  /\ invoices' = [invoices EXCEPT ![i] = r.obj]
           /\ transactions' = CreateTransaction(transactions, r.created[1])
    /\ op' = [name |-> "PendingInvoice.use", id |-> i, arg |-> family, amount |-> 0,
              ret |-> "None"]
    /\ UNCHANGED <<cash_aids, notFinance>>

InvoiceMarkExpired(i) ==
    /\ Tick
    /\ invoices' = [invoices EXCEPT ![i] = PendingInvoice_mark_expired(@)]
    /\ op' = [name |-> "PendingInvoice.mark_expired", id |-> i, arg |-> "", amount |-> 0,
              ret |-> "None", was |-> invoices[i].status]
    /\ UNCHANGED <<transactions, cash_aids, notFinance>>

\* ------------------------------------------------------ finance/admin.py
\* CashAidAdmin.approve_selected
CashAdmin_approve_selected(user, queryset) ==
    /\ Tick
    /\ LET hit == filter_status(cash_aids, queryset, {"pending"})
       IN  /\ cash_aids' = [c \in DOMAIN cash_aids |->
                              IF c \in hit THEN CashAid_approve(cash_aids[c], user, "Toplu onay")
                              ELSE cash_aids[c]]
           /\ op' = [name |-> "CashAidAdmin.approve_selected", id |-> 0, arg |-> user,
                     amount |-> Cardinality(hit), ret |-> "None"]
    /\ UNCHANGED <<transactions, invoices, notFinance>>

\* CashAidAdmin.reject_selected
CashAdmin_reject_selected(user, queryset) ==
    /\ Tick
    /\ LET hit == filter_status(cash_aids, queryset, {"pending"})
       IN  /\ cash_aids' = [c \in DOMAIN cash_aids |->
                              IF c \in hit THEN CashAid_reject(cash_aids[c], user, "Toplu red")
                              ELSE cash_aids[c]]
           /\ op' = [name |-> "CashAidAdmin.reject_selected", id |-> 0, arg |-> user,
                     amount |-> Cardinality(hit), ret |-> "None"]
    /\ UNCHANGED <<transactions, invoices, notFinance>>

RECURSIVE PayEach(_, _, _)
\* The loop of mark_as_paid over the rows it selected, newest first
\* (Meta.ordering = ['-created_at']): obj.pay(request.user, 'cash') on each.
PayEach(hit, user, rows) ==
    IF hit = {} THEN rows
    ELSE LET c == CHOOSE x \in hit : \A y \in hit : y <= x
             r == CashAid_pay(cash_aids[c], c, user, "cash", 0, "")
         IN  PayEach(hit \ {c}, user,
                     IF r.created = <<>> THEN rows ELSE CreateTransaction(rows, r.created[1]))

\* CashAidAdmin.mark_as_paid
CashAdmin_mark_as_paid(user, queryset) ==
    /\ Tick
    /\ LET hit == filter_status(cash_aids, queryset, {"approved"})
       IN  /\ cash_aids' = [c \in DOMAIN cash_aids |->
                              IF c \in hit
                              THEN CashAid_pay(cash_aids[c], c, user, "cash", 0, "").obj
                              ELSE cash_aids[c]]
           /\ transactions' = PayEach(hit, user, transactions)
           /\ op' = [name |-> "CashAidAdmin.mark_as_paid", id |-> 0, arg |-> user,
                     amount |-> Cardinality(hit), ret |-> "None"]
    /\ UNCHANGED <<invoices, notFinance>>

\* A mark_as_expired that forgets exclude(status='used').
InvoiceAdmin_mark_as_expired_all(queryset) ==
    /\ Tick
    /\ invoices' = [i \in DOMAIN invoices |->
                      IF i \in queryset THEN PendingInvoice_mark_expired(invoices[i])
                      ELSE invoices[i]]
    /\ op' = [name |-> "PendingInvoiceAdmin.mark_as_expired", id |-> 0, arg |-> "",
              amount |-> Cardinality(queryset), ret |-> "None"]
    /\ UNCHANGED <<transactions, cash_aids, notFinance>>

\* PendingInvoiceAdmin.mark_as_expired: every selected row but the used ones.
InvoiceAdmin_mark_as_expired(queryset) ==
    /\ Tick
    /\ LET hit == filter_status(invoices, queryset, {"available", "reserved", "expired"})
       IN  /\ invoices' = [i \in DOMAIN invoices |->
                             IF i \in hit THEN PendingInvoice_mark_expired(invoices[i])
                             ELSE invoices[i]]
           /\ op' = [name |-> "PendingInvoiceAdmin.mark_as_expired", id |-> 0, arg |-> "",
                     amount |-> Cardinality(hit), ret |-> "None"]
    /\ UNCHANGED <<transactions, cash_aids, notFinance>>

\* A mark_as_available whose update() resets the status only.
InvoiceAdmin_mark_as_available_status_only(queryset) ==
    /\ Tick
    /\ LET hit == filter_status(invoices, queryset, {"reserved"})
       IN  /\ invoices' = [i \in DOMAIN invoices |->
                             IF i \in hit THEN [invoices[i] EXCEPT !.status = "available"]
                             ELSE invoices[i]]
           /\ op' = [name |-> "PendingInvoiceAdmin.mark_as_available", id |-> 0, arg |-> "",
                     amount |-> Cardinality(hit), ret |-> "None"]
    /\ UNCHANGED <<transactions, cash_aids, notFinance>>

\* PendingInvoiceAdmin.mark_as_available: an update() of the reserved rows.
InvoiceAdmin_mark_as_available(queryset) ==
    /\ Tick
    /\ LET hit == filter_status(invoices, queryset, {"reserved"})
       IN  /\ invoices' = [i \in DOMAIN invoices |->
                             IF i \in hit
                             THEN [invoices[i] EXCEPT !.status = "available",
                                                      !.reserved_for = "None",
                                                      !.reserved_at = 0,
                                                      !.reserved_by = "None"]
                             ELSE invoices[i]]
           /\ op' = [name |-> "PendingInvoiceAdmin.mark_as_available", id |-> 0, arg |-> "",
                     amount |-> Cardinality(hit), ret |-> "None"]
    /\ UNCHANGED <<transactions, cash_aids, notFinance>>

\* ---------------------------------------------- inventory: StockCount
notCount == <<invVars, concVars, finVars, aidVars, budgetVars, refVars, cmsVars, count_items>>

\* StockCount.complete
StockCount_complete(self) == [self EXCEPT !.status = "completed", !.completed_at = now]

CountComplete(c) ==
    /\ Tick
    /\ stock_counts' = [stock_counts EXCEPT ![c] = StockCount_complete(@)]
    /\ op' = [name |-> "StockCount.complete", id |-> c, arg |-> "", amount |-> 0, ret |-> "None"]
    /\ UNCHANGED notCount

\* A mark_as_completed that completes every selected session, whatever
\* its status.
CountAdmin_mark_as_completed_unfiltered(queryset) ==
    /\ Tick
    /\ LET hit == queryset \cap DOMAIN stock_counts
       IN  /\ stock_counts' = [c \in DOMAIN stock_counts |->
                                 IF c \in hit THEN StockCount_complete(stock_counts[c])
                                 ELSE stock_counts[c]]
           /\ op' = [name |-> "StockCountAdmin.mark_as_completed", id |-> 0, arg |-> "",
                     amount |-> Cardinality(hit), ret |-> "None"]
    /\ UNCHANGED notCount

\* StockCountAdmin.mark_as_completed
CountAdmin_mark_as_completed(queryset) ==
    /\ Tick
    /\ LET hit == filter_status(stock_counts, queryset, {"in_progress"})
       IN  /\ stock_counts' = [c \in DOMAIN stock_counts |->
                                 IF c \in hit THEN StockCount_complete(stock_counts[c])
                                 ELSE stock_counts[c]]
           /\ op' = [name |-> "StockCountAdmin.mark_as_completed", id |-> 0, arg |-> "",
                     amount |-> Cardinality(hit), ret |-> "None"]
    /\ UNCHANGED notCount

\* StockCountAdmin.mark_as_in_progress: an update() of the planned rows.
CountAdmin_mark_as_in_progress(queryset) ==
    /\ Tick
    /\ LET hit == filter_status(stock_counts, queryset, {"planned"})
       IN  /\ stock_counts' = [c \in DOMAIN stock_counts |->
                                 IF c \in hit
                                 THEN [stock_counts[c] EXCEPT !.status = "in_progress"]
                                 ELSE stock_counts[c]]
           /\ op' = [name |-> "StockCountAdmin.mark_as_in_progress", id |-> 0, arg |-> "",
                     amount |-> Cardinality(hit), ret |-> "None"]
    /\ UNCHANGED notCount

\* ------------------------------------------- the workflow entry points
\* The entry points approve, reject, prepare, distribute, pay, reserve, use
\* and complete, called directly on a row.
WorkflowDirect ==
    \/ \E r \in DOMAIN aid_requests, u \in Users :
          \/ AidApprove(r, u, "")
          \/ AidReject(r, u, "n1")
          \/ AidPrepare(r, u)
          \/ AidDistribute(r, u)
    \/ \E c \in DOMAIN cash_aids, u \in Users :
          \/ CashApprove(c, u, "")
          \/ CashReject(c, u, "n1")
          \/ \E account \in {0, 1} : CashPay(c, u, "cash", account)
    \/ \E i \in DOMAIN invoices, f \in Families, u \in Users :
          \/ InvoiceReserve(i, f, u)
          \/ InvoiceUse(i, f, u)
    \/ \E c \in DOMAIN stock_counts : CountComplete(c)

\* The admin bulk actions over the same rows.
WorkflowAdmin ==
    \/ AidAdmin
    \/ \E u \in Users, qs \in Selections(cash_aids) :
          \/ CashAdmin_approve_selected(u, qs)
          \/ CashAdmin_reject_selected(u, qs)
          \/ CashAdmin_mark_as_paid(u, qs)
    \/ \E qs \in Selections(invoices) :
          \/ InvoiceAdmin_mark_as_expired(qs)
          \/ InvoiceAdmin_mark_as_available(qs)
    \/ \E qs \in Selections(stock_counts) :
          \/ CountAdmin_mark_as_completed(qs)
          \/ CountAdmin_mark_as_in_progress(qs)

NextWorkflow == WorkflowDirect \/ WorkflowAdmin

\* One row of each workflow table; the invoice is of the largest amount.
InitWorkflowRows ==
    /\ transactions = <<>>
    /\ cash_aids \in [CashAidIds -> {NewCashAid(a) : a \in 1..MaxQty}]
    /\ invoices = [i \in InvoiceIds |-> NewPendingInvoice(MaxQty)]
    /\ aid_requests = [r \in {1} |-> NewAidRequest]
    /\ aid_items = [k \in {1} |-> NewAidItem(k)]
    /\ stock_counts = [c \in StockCountIds |-> NewStockCount]
    /\ budgets = [b \in BudgetIds |-> NewBudget(1, MaxTime, 0, 0)]

InitWorkflow == InitInventoryFixed /\ InitWorkflowRows

SpecWorkflow == InitWorkflow /\ [][NextWorkflow]_vars

\* --------------------------------------------- the PendingInvoice workflow
\* Two invoices, the first of any amount.
InitInvoice ==
    /\ InitInventoryFixed
    /\ transactions = <<>>
    /\ cash_aids = [c \in CashAidIds |-> NewCashAid(1)]
    /\ invoices \in {[i \in {1, 2} |-> NewPendingInvoice(IF i = 1 THEN a ELSE 1)] : a \in 1..MaxQty}
    /\ aid_requests = [r \in {1} |-> NewAidRequest]
    /\ aid_items = [k \in {1} |-> NewAidItem(k)]
    /\ stock_counts = [c \in StockCountIds |-> NewStockCount]
    /\ budgets = [b \in BudgetIds |-> NewBudget(1, MaxTime, 0, 0)]

\* The PendingInvoice methods called directly.
InvoiceDirect ==
    \E i \in DOMAIN invoices :
        \/ \E f \in Families, u \in Users : InvoiceReserve(i, f, u)
        \/ \E f \in Families : InvoiceUse(i, f, "u1")
        \/ InvoiceMarkExpired(i)

\* The PendingInvoiceAdmin bulk actions.
InvoiceAdmin ==
    \E qs \in Selections(invoices) :
        \/ InvoiceAdmin_mark_as_expired(qs)
        \/ InvoiceAdmin_mark_as_available(qs)

NextInvoice == InvoiceDirect \/ InvoiceAdmin

SpecInvoice == InitInvoice /\ [][NextInvoice]_vars

\* ------------------------------------------------- the admin change forms
\* ItemAdmin change form: stock_amount and critical_level are editable
\* fields of the 'Stok Bilgileri' fieldset; MinValueValidator(0) on both.
ItemAdmin_change(stock_amount, critical_level) ==
    /\ Tick
    /\ stock_amount >= 0 /\ critical_level >= 0
    /\ item' = [item EXCEPT !.stock_amount = stock_amount, !.critical_level = critical_level]
    /\ op' = [name |-> "ItemAdmin.save_model", id |-> 1, arg |-> "", amount |-> stock_amount,
              ret |-> "None"]
    /\ UNCHANGED <<movements, initial_stock, notInventory>>

\* ItemAdmin.mark_as_critical: critical_level becomes the current stock.
ItemAdmin_mark_as_critical ==
    /\ Tick
    /\ item' = [item EXCEPT !.critical_level = item.stock_amount]
    /\ op' = [name |-> "ItemAdmin.mark_as_critical", id |-> 1, arg |-> "", amount |-> 0,
              ret |-> "None"]
    /\ UNCHANGED <<movements, initial_stock, notInventory>>

\* StockMovementAdmin change form on the row with pk i: movement_type and
\* quantity are editable (only stock_before and stock_after are read-only);
\* save_model calls obj.save(), which takes the not-new branch.
StockMovementAdmin_change(i, t, q) ==
    /\ Tick
    /\ i \in 1..Len(movements)
    /\ LET r == StockMovement_save([movements[i] EXCEPT !.movement_type = t, !.quantity = q],
                                   item)
       IN  /\ item' = IF r.item_saved THEN r.item ELSE item
           /\ movements' = [movements EXCEPT ![i] = r.mv]
    /\ op' = [name |-> "StockMovementAdmin.save_model", id |-> i, arg |-> t, amount |-> q,
              ret |-> "None"]
    /\ UNCHANGED <<initial_stock, notInventory>>

\* TransactionAdmin add form.
TransactionAdmin_add(type, amount, user) ==
    /\ Tick
    /\ transactions' = CreateTransaction(transactions,
                                         NewTransaction(type, amount, 0, 0, 0, user))
    /\ op' = [name |-> "TransactionAdmin.save_model", id |-> Len(transactions) + 1,
              arg |-> type, amount |-> amount, ret |-> "None"]
    /\ UNCHANGED <<cash_aids, invoices, notFinance>>

\* TransactionAdmin change form on the row with pk i: every field of the
\* fieldsets but the audit fields is editable.
TransactionAdmin_change(i, type, amount) ==
    /\ Tick
    /\ i \in 1..Len(transactions)
    /\ transactions' = [transactions EXCEPT ![i].transaction_type = type, ![i].amount = amount]
    /\ op' = [name |-> "TransactionAdmin.save_model", id |-> i, arg |-> type,
              amount |-> amount, ret |-> "None"]
    /\ UNCHANGED <<cash_aids, invoices, notFinance>>

TransactionType == {"income", "expense"}

\* The inventory and the finance ledger as the admin site drives them.
NextAdmin ==
    \/ \E t \in MovementType, q \in 1..MaxQty : RecordMovement(t, q)
    \/ \E i \in 1..MaxTime, t \in MovementType, q \in 1..MaxQty : StockMovementAdmin_change(i, t, q)
    \/ \E s \in 0..MaxQty, c \in 0..1 : ItemAdmin_change(s, c)
    \/ ItemAdmin_mark_as_critical
    \/ \E t \in TransactionType, a \in 1..MaxQty : TransactionAdmin_add(t, a, "u1")
    \/ \E i \in 1..MaxTime, t \in TransactionType, a \in 1..MaxQty : TransactionAdmin_change(i, t, a)
    \/ \E c \in DOMAIN cash_aids, u \in Users : CashApprove(c, u, "")
    \/ \E c \in DOMAIN cash_aids : CashPay(c, "u1", "cash", 1)
    \/ \E i \in DOMAIN invoices, f \in Families : InvoiceUse(i, f, "u1")
    \/ \E c \in DOMAIN stock_counts : CountComplete(c)
    \/ \E r \in DOMAIN aid_requests : AidDistribute(r, "u1")

SpecAdmin == Init /\ [][NextAdmin]_vars

\* ------------------------------------------------------ finance: Budget
\* A filter that takes transaction_date__lt for transaction_date__lte.
filter_transactions_before_end(rows, type, start_date, end_date) ==
    SelectSeq(rows, LAMBDA t : /\ t.transaction_type = type
                               /\ t.transaction_date >= start_date
                               /\ t.transaction_date < end_date)

\* Transaction.objects.filter(transaction_type=type,
\* transaction_date__gte=start_date, transaction_date__lte=end_date)
filter_transactions(rows, type, start_date, end_date) ==
    SelectSeq(rows, LAMBDA t : /\ t.transaction_type = type
                               /\ t.transaction_date >= start_date
                               /\ t.transaction_date <= end_date)

RECURSIVE SumAmount(_)
\* Sum('amount') over rows that exist.
SumAmount(rows) == IF rows = <<>> THEN 0 ELSE Head(rows).amount + SumAmount(Tail(rows))

\* .aggregate(total=Sum('amount'))['total']: None when no row matched.
aggregate_Sum(rows) ==
    IF rows = <<>> THEN [is_none |-> TRUE, total |-> 0]
    ELSE [is_none |-> FALSE, total |-> SumAmount(rows)]

\* Budget.actual_income: total or 0.
actual_income(self) ==
    LET total == aggregate_Sum(filter_transactions(transactions, "income",
                                                   self.start_date, self.end_date))
    IN  IF total.is_none \/ total.total = 0 THEN 0 ELSE total.total

\* Budget.actual_expense: total or 0.
actual_expense(self) ==
    LET total == aggregate_Sum(filter_transactions(transactions, "expense",
                                                   self.start_date, self.end_date))
    IN  IF total.is_none \/ total.total = 0 THEN 0 ELSE total.total

\* Budget.income_variance and Budget.expense_variance
income_variance(self) == actual_income(self) - self.target_income
expense_variance(self) == actual_expense(self) - self.target_expense

RECURSIVE GCD(_, _)
GCD(a, b) == IF b = 0 THEN a ELSE GCD(b, a % b)

\* A Decimal quotient, kept exact as a fraction in lowest terms.
Fraction(n, d) == [num |-> n \div GCD(n, d), den |-> d \div GCD(n, d)]

\* A percentage that returns the ratio, without the * 100.
income_percentage_as_ratio(self) ==
    IF self.target_income = 0 THEN Fraction(0, 1)
    ELSE Fraction(actual_income(self), self.target_income)

\* Budget.income_percentage: 0 for a target of 0, else (actual / target) * 100.
income_percentage(self) ==
    IF self.target_income = 0 THEN Fraction(0, 1)
    ELSE LET q == Fraction(actual_income(self), self.target_income)
         IN  Fraction(q.num * 100, q.den)

\* Budget.expense_percentage
expense_percentage(self) ==
    IF self.target_expense = 0 THEN Fraction(0, 1)
    ELSE LET q == Fraction(actual_expense(self), self.target_expense)
         IN  Fraction(q.num * 100, q.den)

\* TransactionAdmin add form with the transaction_date field filled in.
TransactionAdmin_add_on(type, amount, date) ==
    /\ Tick
    /\ transactions' = CreateTransaction(transactions,
                          [NewTransaction(type, amount, 0, 0, 0, "u1") EXCEPT
                               !.transaction_date = date])
    /\ op' = [name |-> "TransactionAdmin.save_model", id |-> Len(transactions) + 1,
              arg |-> type, amount |-> amount, ret |-> "None"]
    /\ UNCHANGED <<cash_aids, invoices, notFinance>>

\* BudgetAdmin change form of budget b: the six read-only fields are
\* rendered, each a property read on the row.
BudgetAdmin_view(b) ==
    /\ Tick
    /\ op' = [name |-> "BudgetAdmin.change_view", id |-> b, arg |-> "", amount |-> 0,
              ret |-> "None",
              actual_income |-> actual_income(budgets[b]),
              actual_expense |-> actual_expense(budgets[b]),
              income_variance |-> income_variance(budgets[b]),
              expense_variance |-> expense_variance(budgets[b]),
              income_percentage |-> income_percentage(budgets[b]),
              expense_percentage |-> expense_percentage(budgets[b])]
    /\ UNCHANGED <<invVars, concVars, finVars, aidVars, countVars, budgetVars, refVars, cmsVars>>

\* One budget: a period within the dates transactions can carry, and targets
\* of which either may be 0.
InitBudget ==
    /\ InitInventoryFixed
    /\ transactions = <<>>
    /\ cash_aids = [c \in CashAidIds |-> NewCashAid(1)]
    /\ invoices = [i \in InvoiceIds |-> NewPendingInvoice(1)]
    /\ aid_requests = [r \in {1} |-> NewAidRequest]
    /\ aid_items = [k \in {1} |-> NewAidItem(k)]
    /\ stock_counts = [c \in StockCountIds |-> NewStockCount]
    /\ budgets \in {[b \in BudgetIds |-> NewBudget(s, e, ti, MaxQty - ti)] :
                       s \in 1..2, e \in 2..MaxTime, ti \in 0..MaxQty}

NextBudget ==
    \/ \E t \in TransactionType, a \in {1, MaxQty}, d \in 1..MaxTime :
          TransactionAdmin_add_on(t, a, d)
    \/ \E b \in DOMAIN budgets : BudgetAdmin_view(b)

SpecBudget == InitBudget /\ [][NextBudget]_vars

\* ------------------------------------------- inventory: StockCountItem
notCountItems == <<invVars, concVars, finVars, aidVars, budgetVars, refVars, cmsVars, stock_counts>>

\* A StockCountItem as the inline form submits it: both quantities are typed in.
NewStockCountItem(stock_count, it, system_quantity, counted_quantity) ==
    [pk |-> 0, stock_count |-> stock_count, item |-> it,
     system_quantity |-> system_quantity, counted_quantity |-> counted_quantity]

\* A discrepancy taken the wrong way round (system - counted).
discrepancy_reversed(self) == self.system_quantity - self.counted_quantity

\* StockCountItem.discrepancy
discrepancy(self) == self.counted_quantity - self.system_quantity

\* StockCountItem.has_discrepancy
has_discrepancy(self) == discrepancy(self) # 0

\* StockCountItem.discrepancy_percentage: 0 for a system quantity of 0, else
\* (discrepancy / system_quantity) * 100.
discrepancy_percentage(self) ==
    IF self.system_quantity = 0 THEN Fraction(0, 1)
    ELSE LET q == Fraction(discrepancy(self), self.system_quantity)
         IN  Fraction(q.num * 100, q.den)

\* StockCountItemInline: a new line of session c for the Item is saved. The
\* form takes system_quantity as typed; counted_quantity passes
\* MinValueValidator(0); unique_together refuses a second line of the same
\* session and item.
StockCountItemInline_add(c, system_quantity, counted_quantity) ==
    /\ Tick
    /\ c \in DOMAIN stock_counts
    /\ 1 \in item_pks
    /\ counted_quantity >= 0
    /\ \A k \in 1..Len(count_items) :
          ~(count_items[k].stock_count = c /\ count_items[k].item = 1)
    /\ count_items' = Append(count_items,
                         [NewStockCountItem(c, 1, system_quantity, counted_quantity)
                             EXCEPT !.pk = Len(count_items) + 1])
    /\ op' = [name |-> "StockCountItemInline.save", id |-> Len(count_items) + 1, arg |-> "",
              amount |-> counted_quantity, ret |-> "None", was |-> item.stock_amount]
    /\ UNCHANGED notCountItems

\* StockCountItemAdmin changelist row of line k: discrepancy_display and
\* has_discrepancy are rendered, each a property read on the row.
StockCountItemAdmin_view(k) ==
    /\ Tick
    /\ k \in 1..Len(count_items)
    /\ op' = [name |-> "StockCountItemAdmin.changelist_view", id |-> k, arg |-> "",
              amount |-> 0, ret |-> "None",
              discrepancy |-> discrepancy(count_items[k]),
              has_discrepancy |-> has_discrepancy(count_items[k]),
              discrepancy_percentage |-> discrepancy_percentage(count_items[k])]
    /\ UNCHANGED <<count_items, notCountItems>>

\* One planned session, nothing counted yet, an Item of any stock.
InitCount ==
    /\ InitInventory
    /\ InitWorkflowFixed

NextCount ==
    \/ \E c \in DOMAIN stock_counts, s \in 0..MaxQty, q \in 0..MaxQty :
          StockCountItemInline_add(c, s, q)
    \/ \E k \in 1..Len(count_items) : StockCountItemAdmin_view(k)
    \/ \E t \in MovementType, q \in 1..MaxQty : RecordMovement(t, q)

SpecCount == InitCount /\ [][NextCount]_vars

\* ------------------------------------------------ deleting referenced rows
\* Model.delete() collects, over every foreign key that points at the row,
\* the rows its on_delete rule protects, nulls or cascades to; when any row
\* is protected it raises ProtectedError before it writes anything.

\* A collector for Item that leaves out the keys of AidItem and
\* StockCountItem, as if they were not PROTECT.
Item_protected_movements_only(pk) ==
    [movements |-> {i \in 1..Len(movements) : movements[i].item = pk},
     aid_items |-> {},
     count_items |-> {}]

\* The rows whose PROTECT key points at Item pk: StockMovement.item,
\* AidItem.item, StockCountItem.item.
Item_protected(pk) ==
    [movements |-> {i \in 1..Len(movements) : movements[i].item = pk},
     aid_items |-> {k \in DOMAIN aid_items : aid_items[k].item = pk},
     count_items |-> {k \in 1..Len(count_items) : count_items[k].item = pk}]

\* The rows whose PROTECT key points at Family f: AidRequest.family and
\* CashAid.family. StockMovement.family is SET_NULL, as are the two keys of
\* PendingInvoice.
Family_protected(f) ==
    [aid_requests |-> {r \in DOMAIN aid_requests : aid_requests[r].family = f},
     cash_aids |-> {c \in DOMAIN cash_aids : cash_aids[c].family = f}]

\* item.delete() on the Item with this pk. CashAid.account and
\* Transaction.account are SET_NULL.
Item_delete(pk) ==
    /\ Tick
    /\ pk \in item_pks
    /\ LET p == Item_protected(pk)
       IN  IF p.movements # {} \/ p.aid_items # {} \/ p.count_items # {}
           THEN /\ op' = [name |-> "Item.delete", id |-> pk, arg |-> "", amount |-> 0,
                          ret |-> "ProtectedError"]
                /\ UNCHANGED <<item_pks, cash_aids, transactions>>
           ELSE /\ op' = [name |-> "Item.delete", id |-> pk, arg |-> "", amount |-> 0,
                          ret |-> "None"]
                /\ item_pks' = item_pks \ {pk}
                /\ cash_aids' = [c \in DOMAIN cash_aids |->
                                   IF cash_aids[c].account = pk
                                   THEN [cash_aids[c] EXCEPT !.account = 0]
                                   ELSE cash_aids[c]]
                /\ transactions' = [i \in DOMAIN transactions |->
                                      IF transactions[i].account = pk
                                      THEN [transactions[i] EXCEPT !.account = 0]
                                      ELSE transactions[i]]
    /\ UNCHANGED <<invVars, concVars, invoices, aidVars, countVars, budgetVars, family_pks,
                   cmsVars>>

\* family.delete() on Family f. The members, photos and documents it
\* cascades to are not rows of this model.
Family_delete(f) ==
    /\ Tick
    /\ f \in family_pks
    /\ LET p == Family_protected(f)
       IN  IF p.aid_requests # {} \/ p.cash_aids # {}
           THEN /\ op' = [name |-> "Family.delete", id |-> 0, arg |-> f, amount |-> 0,
                          ret |-> "ProtectedError"]
                /\ UNCHANGED <<family_pks, movements, invoices>>
           ELSE /\ op' = [name |-> "Family.delete", id |-> 0, arg |-> f, amount |-> 0,
                          ret |-> "None"]
                /\ family_pks' = family_pks \ {f}
                /\ movements' = [i \in DOMAIN movements |->
                                   IF movements[i].family = f
                                   THEN [movements[i] EXCEPT !.family = "None"]
                                   ELSE movements[i]]
                /\ invoices' = [i \in DOMAIN invoices |->
                                  [invoices[i] EXCEPT
                                     !.reserved_for = IF @ = f THEN "None" ELSE @,
                                     !.used_by_family = IF @ = f THEN "None" ELSE @]]
    /\ UNCHANGED <<item, initial_stock, concVars, transactions, cash_aids, aidVars, countVars,
                   budgetVars, item_pks, cmsVars>>

\* StockMovementAdmin add form: a movement of the Item with the family
\* field filled in or left empty.
StockMovementAdmin_add(t, q, family) ==
    /\ Tick
    /\ 1 \in item_pks
    /\ family \in family_pks \cup {"None"}
    /\ LET r == StockMovement_save([NewMovement(t, q) EXCEPT !.family = family], item)
       IN  /\ item' = IF r.item_saved THEN r.item ELSE item
           /\ movements' = Append(movements, [r.mv EXCEPT !.pk = Len(movements) + 1])
    /\ op' = [name |-> "StockMovementAdmin.save_model", id |-> Len(movements) + 1, arg |-> t,
              amount |-> q, ret |-> "None"]
    /\ UNCHANGED <<initial_stock, notInventory>>

\* AidRequestAdmin add form: a pending request of an existing family.
AidRequestAdmin_add(family) ==
    /\ Tick
    /\ family \in family_pks
    /\ Cardinality(DOMAIN aid_requests) + 1 \in AidRequestIds
    /\ aid_requests' = [r \in DOMAIN aid_requests \cup {Cardinality(DOMAIN aid_requests) + 1} |->
                          IF r \in DOMAIN aid_requests THEN aid_requests[r]
                          ELSE [NewAidRequest EXCEPT !.family = family]]
    /\ op' = [name |-> "AidRequestAdmin.save_model", id |-> Cardinality(DOMAIN aid_requests) + 1,
              arg |-> family, amount |-> 0, ret |-> "None"]
    /\ UNCHANGED notAid

\* AidItemInline: request r gets its line for the Item; unique_together
\* refuses a second one.
AidItemInline_add(r) ==
    /\ Tick
    /\ r \in DOMAIN aid_requests
    /\ 1 \in item_pks
    /\ \A k \in DOMAIN aid_items : ~(aid_items[k].aid_request = r /\ aid_items[k].item = 1)
    /\ aid_items' = [k \in DOMAIN aid_items \cup {Cardinality(DOMAIN aid_items) + 1} |->
                       IF k \in DOMAIN aid_items THEN aid_items[k] ELSE NewAidItem(r)]
    /\ op' = [name |-> "AidItemInline.save", id |-> Cardinality(DOMAIN aid_items) + 1,
              arg |-> "", amount |-> 1, ret |-> "None"]
    /\ UNCHANGED <<aid_requests, invVars, concVars, finVars, countVars, budgetVars, refVars,
                   cmsVars>>

\* An Item with stock and two families; one CashAid of the first family
\* and one available invoice; no request, movement or count line yet.
InitDelete ==
    /\ InitInventoryFixed
    /\ transactions = <<>>
    /\ cash_aids = [c \in CashAidIds |-> NewCashAid(1)]
    /\ invoices = [i \in InvoiceIds |-> NewPendingInvoice(1)]
    /\ aid_requests = <<>>
    /\ aid_items = <<>>
    /\ stock_counts = [c \in StockCountIds |-> NewStockCount]
    /\ budgets = [b \in BudgetIds |-> NewBudget(1, MaxTime, 0, 0)]

NextDelete ==
    \/ \E t \in {"in", "out"}, f \in Families \cup {"None"} : StockMovementAdmin_add(t, 1, f)
    \/ \E f \in Families : AidRequestAdmin_add(f)
    \/ \E r \in DOMAIN aid_requests : AidItemInline_add(r)
    \/ \E c \in DOMAIN stock_counts : StockCountItemInline_add(c, item.stock_amount, MaxQty)
    \/ \E i \in DOMAIN invoices, f \in family_pks : InvoiceReserve(i, f, "u1")
    \/ \E c \in DOMAIN cash_aids, account \in item_pks : CashPay(c, "u1", "cash", account)
    \/ \E pk \in item_pks : Item_delete(pk)
    \/ \E f \in family_pks : Family_delete(f)

SpecDelete == InitDelete /\ [][NextDelete]_vars

\* ------------------------------------------------------- cms: SiteSettings
SiteNames == {DefaultSiteName, "s1", "s2"}

\* The largest pk a caller gives an instance by hand.
MaxPk == 2

\* What the SiteSettings methods never touch.
notCms == <<invVars, concVars, finVars, aidVars, countVars, budgetVars, refVars>>

\* Model.save(): an instance without pk is inserted under the next pk, one
\* with a pk updates that row or is inserted under it.
Model_save(self, rows) ==
    LET pk == IF self.pk # 0 THEN self.pk
              ELSE IF DOMAIN rows = {} THEN 1
              ELSE 1 + CHOOSE m \in DOMAIN rows : \A k \in DOMAIN rows : k <= m
        obj == [self EXCEPT !.pk = pk]
    IN  [obj |-> obj,
         rows |-> [k \in DOMAIN rows \cup {pk} |-> IF k = pk THEN obj ELSE rows[k]]]

\* A save that leaves the instance's pk as it is.
SiteSettings_save_keeps_pk(self, rows) == Model_save(self, rows)

\* SiteSettings.save: the pk is set to 1, then Model.save().
SiteSettings_save(self, rows) == Model_save([self EXCEPT !.pk = 1], rows)

\* SiteSettings.delete: pass.
SiteSettings_delete(self, rows) == rows

\* SiteSettings.load: get_or_create(pk=1); the create saves a new instance
\* of default fields.
SiteSettings_load(rows) ==
    IF 1 \in DOMAIN rows THEN [obj |-> rows[1], rows |-> rows, created |-> FALSE]
    ELSE LET r == SiteSettings_save(NewSiteSettings(1, DefaultSiteName), rows)
         IN  [obj |-> r.obj, rows |-> r.rows, created |-> TRUE]

\* SiteSettings(pk=..., site_name=...): a request builds an instance.
SettingsNew(pk, site_name) ==
    /\ Tick
    /\ settings_obj' = NewSiteSettings(pk, site_name)
    /\ op' = [name |-> "SiteSettings", id |-> pk, arg |-> site_name, amount |-> 0,
              ret |-> "None"]
    /\ UNCHANGED <<site_settings, notCms>>

\* SiteSettings.load() as the views call it.
SettingsLoad ==
    /\ Tick
    /\ LET r == SiteSettings_load(site_settings)
       IN  /\ site_settings' = r.rows
           /\ settings_obj' = r.obj
           /\ op' = [name |-> "SiteSettings.load", id |-> r.obj.pk, arg |-> r.obj.site_name,
                     amount |-> 0, ret |-> IF r.created THEN "created" ELSE "found"]
    /\ UNCHANGED notCms

\* The instance held gets a new site_name and is saved (the admin change
\* form does this with the instance it loaded).
SettingsSave(site_name) ==
    /\ Tick
    /\ LET r == SiteSettings_save([settings_obj EXCEPT !.site_name = site_name], site_settings)
       IN  /\ site_settings' = r.rows
           /\ settings_obj' = r.obj
    /\ op' = [name |-> "SiteSettings.save", id |-> settings_obj.pk, arg |-> site_name,
              amount |-> 0, ret |-> "None"]
    /\ UNCHANGED notCms

\* delete() on the instance held.
SettingsDelete ==
    /\ Tick
    /\ site_settings' = SiteSettings_delete(settings_obj, site_settings)
    /\ op' = [name |-> "SiteSettings.delete", id |-> settings_obj.pk, arg |-> "", amount |-> 0,
              ret |-> "None"]
    /\ UNCHANGED <<settings_obj, notCms>>

\* No settings row yet, as in a new database.
InitSettings == InitInventoryFixed /\ InitWorkflowFixed

NextSettings ==
    \/ \E pk \in 0..MaxPk, n \in SiteNames : SettingsNew(pk, n)
    \/ SettingsLoad
    \/ \E n \in SiteNames : SettingsSave(n)
    \/ SettingsDelete

SpecSettings == InitSettings /\ [][NextSettings]_vars

\* ------------------------------------------ concurrent mark_as_paid requests
\* The rows of a set of pks as a list of instances, in pk order.
RECURSIVE Instances(_, _)
Instances(rows, pks) ==
    IF pks = {} THEN <<>>
    ELSE LET c == CHOOSE x \in pks : \A y \in pks : x <= y
         IN  <<[pk |-> c, obj |-> rows[c]]>> \o Instances(rows, pks \ {c})

\* Request p enters the for loop of mark_as_paid: the query
\* queryset.filter(status='approved') runs once and the request holds an
\* instance of every row it found.
PaidFilter(p, user, queryset) ==
    /\ admin_proc[p].pc = "idle"
    /\ LET hit == filter_status(cash_aids, queryset, {"approved"})
       IN  /\ admin_proc' = [admin_proc EXCEPT ![p] =
                                [pc |-> IF hit = {} THEN "done" ELSE "iterating",
                                 user |-> user, todo |-> Instances(cash_aids, hit)]]
           /\ op' = [name |-> "CashAidAdmin.mark_as_paid", id |-> p, arg |-> user,
                     amount |-> Cardinality(hit), ret |-> "None"]
    /\ now' = now + 1
    /\ UNCHANGED <<proc, invVars, finVars, aidVars, countVars, budgetVars, refVars, cmsVars>>

\* Request p runs the loop body on the next instance it holds: obj.pay()
\* saves the instance over the row and creates the Transaction.
PaidPay(p) ==
    /\ admin_proc[p].pc = "iterating"
    /\ LET obj == Head(admin_proc[p].todo)
           r == CashAid_pay(obj.obj, obj.pk, admin_proc[p].user, "cash", 0, "")
           rest == Tail(admin_proc[p].todo)
       IN  /\ cash_aids' = [cash_aids EXCEPT ![obj.pk] = r.obj]
           /\ transactions' = IF r.created = <<>> THEN transactions
                              ELSE CreateTransaction(transactions, r.created[1])
           /\ admin_proc' = [admin_proc EXCEPT ![p].todo = rest,
                                               ![p].pc = IF rest = <<>> THEN "done"
                                                         ELSE "iterating"]
           /\ op' = [name |-> "CashAid.pay", id |-> obj.pk, arg |-> admin_proc[p].user,
                     amount |-> 0, ret |-> "None", was |-> cash_aids[obj.pk].status,
                     account |-> 0]
    /\ now' = now + 1
    /\ UNCHANGED <<proc, invoices, invVars, aidVars, countVars, budgetVars, refVars, cmsVars>>

\* Pending CashAids; the admin approves them, and two admin requests run
\* mark_as_paid, each once.
InitPaid == InitInventoryFixed /\ InitWorkflowFixed

NextPaid ==
    \/ \E u \in Users, qs \in Selections(cash_aids) : CashAdmin_approve_selected(u, qs)
    \/ \E p \in Procs :
          \/ \E u \in Users, qs \in Selections(cash_aids) : PaidFilter(p, u, qs)
          \/ PaidPay(p)

SpecPaid == InitPaid /\ [][NextPaid]_vars

\* ------------------------------- AidRequests under the admin bulk actions
\* Two requests, each pending as created or cancelled by an earlier call.
InitAidAdmin ==
    /\ InitInventoryFixed
    /\ transactions = <<>>
    /\ cash_aids = [c \in CashAidIds |-> NewCashAid(1)]
    /\ invoices = [i \in InvoiceIds |-> NewPendingInvoice(1)]
    /\ aid_requests \in [AidRequestIds ->
                            {NewAidRequest, AidRequest_cancel(NewAidRequest, "u1", "n1")}]
    /\ aid_items = [k \in AidRequestIds |-> NewAidItem(k)]
    /\ stock_counts = [c \in StockCountIds |-> NewStockCount]
    /\ budgets = [b \in BudgetIds |-> NewBudget(1, MaxTime, 0, 0)]

SpecAidAdmin == InitAidAdmin /\ [][AidAdmin]_vars

\* --------------------------------- count sessions under the admin actions
\* Two sessions, each planned as created or cancelled; the Item has stock
\* and nothing was counted yet.
InitCountAdmin ==
    /\ InitInventoryFixed
    /\ transactions = <<>>
    /\ cash_aids = [c \in CashAidIds |-> NewCashAid(1)]
    /\ invoices = [i \in InvoiceIds |-> NewPendingInvoice(1)]
    /\ aid_requests = [r \in {1} |-> NewAidRequest]
    /\ aid_items = [k \in {1} |-> NewAidItem(k)]
    /\ stock_counts \in [{1, 2} -> {NewStockCount, [NewStockCount EXCEPT !.status = "cancelled"]}]
    /\ budgets = [b \in BudgetIds |-> NewBudget(1, MaxTime, 0, 0)]

\* The sessions are started and completed from the changelist while their
\* lines are entered, with or without a discrepancy.
NextCountAdmin ==
    \/ \E qs \in Selections(stock_counts) : CountAdmin_mark_as_in_progress(qs)
    \/ \E qs \in Selections(stock_counts) : CountAdmin_mark_as_completed(qs)
    \/ \E c \in DOMAIN stock_counts, s \in {0, item.stock_amount}, q \in {0, item.stock_amount} :
          StockCountItemInline_add(c, s, q)

SpecCountAdmin == InitCountAdmin /\ [][NextCountAdmin]_vars

\* ================================================================== claims
RECURSIVE SumQuantity(_, _)
\* Sum of the quantities of the first n movements whose type is in types.
SumQuantity(types, n) ==
    IF n = 0 THEN 0
    ELSE SumQuantity(types, n - 1)
         + (IF movements[n].movement_type \in types THEN movements[n].quantity ELSE 0)

NoAdjustment ==
    \A i \in 1..Len(movements) : movements[i].movement_type # "adjustment"

\* C1: with only in, out and transfer entries recorded one after another, the
\* Item's quantity is its initial quantity plus the sum of the in quantities
\* minus the sum of the out and transfer quantities.
C1_LedgerSum ==
    NoAdjustment =>
        item.stock_amount = initial_stock
            + SumQuantity({"in"}, Len(movements))
            - SumQuantity({"out", "transfer"}, Len(movements))

\* C2: the Item's quantity is never negative, whatever sequence of
\* increase_stock, decrease_stock and StockMovement saves (amounts > 0) ran.
C2_NonNegative == item.stock_amount >= 0

\* C2 witness: an out or transfer larger than the stock was just recorded.
C2_Witness ==
    /\ op.name = "StockMovement.save"
    /\ op.arg \in {"out", "transfer"}
    /\ op.amount > movements[op.id].stock_before
    /\ item.stock_amount >= 0

\* C3: decrease_stock(amount) on an Item holding less than amount leaves the
\* row unchanged and returns False; otherwise it subtracts amount, saves the
\* row and returns True.
C3_DecreaseStock ==
    [][op'.name = "Item.decrease_stock" =>
         IF item.stock_amount < op'.amount
         THEN item' = item /\ op'.ret = "False"
         ELSE /\ item'.stock_amount = item.stock_amount - op'.amount
              /\ op'.ret = "True"]_vars

\* C3 witness: a decrease_stock was refused and the row still holds less than
\* the amount asked for.
C3_Witness ==
    /\ op.name = "Item.decrease_stock"
    /\ op.ret = "False"
    /\ item.stock_amount < op.amount

\* quantityAfter as the ledger rule states it.
QuantityAfter(type, before, quantity) ==
    CASE type = "in" -> before + quantity
      [] type \in {"out", "transfer"} -> before - quantity
      [] type = "adjustment" -> quantity

\* C4: every recorded StockMovement has stock_after = f(type, stock_before,
\* quantity), with stock_before the Item's quantity just before the record.
C4_QuantityAfter ==
    \A i \in 1..Len(movements) :
        /\ movements[i].stock_before =
               (IF i = 1 THEN initial_stock ELSE movements[i - 1].stock_after)
        /\ movements[i].stock_after =
               QuantityAfter(movements[i].movement_type, movements[i].stock_before,
                             movements[i].quantity)

\* C5: recording an out or transfer whose quantity exceeds the Item's current
\* quantity fails: no such StockMovement is persisted (and the quantity is
\* unchanged).
C5_OverdrawRejected ==
    \A i \in 1..Len(movements) :
        movements[i].movement_type \in {"out", "transfer"} =>
            movements[i].quantity <= movements[i].stock_before

AllDone == \A p \in Procs : proc[p].pc = "done"

\* Every request read the Item row before any request wrote it.
ReadsBeforeWrites == \A p, q \in Procs : proc[p].read_at < proc[q].saved_at

\* C6: when two StockMovement saves on one Item interleave so that both read
\* the row before either writes it, both rows carry the same stock_before and
\* the Item ends with the stock_after of one of them alone: the other change
\* is lost.
C6_LostUpdate ==
    (AllDone /\ ReadsBeforeWrites) =>
        /\ \A p, q \in Procs : proc[p].mv.stock_before = proc[q].mv.stock_before
        /\ \A i \in 1..Len(movements) : movements[i].stock_before = initial_stock
        /\ item.stock_amount \in {proc[p].mv.stock_after : p \in Procs}

\* C6 witness: two out movements that both succeeded on the same starting
\* quantity; the Item was debited once.
C6_Witness ==
    /\ AllDone /\ ReadsBeforeWrites
    /\ \A p \in Procs : /\ proc[p].mv.movement_type = "out"
                        /\ proc[p].mv.stock_after = proc[p].mv.stock_before - proc[p].mv.quantity
    /\ proc[1].mv.stock_before = proc[2].mv.stock_before
    /\ initial_stock >= proc[1].mv.quantity + proc[2].mv.quantity
    /\ \E p \in Procs : item.stock_amount = initial_stock - proc[p].mv.quantity
    /\ item.stock_amount > initial_stock - proc[1].mv.quantity - proc[2].mv.quantity

\* The status changes the workflow description allows.
SpecTransitions ==
    {<<"pending", "approved">>, <<"approved", "prepared">>, <<"prepared", "distributed">>,
     <<"pending", "rejected">>,
     <<"pending", "cancelled">>, <<"approved", "cancelled">>, <<"prepared", "cancelled">>}

\* The status changes the admin bulk actions make.
AdminTransitions ==
    {<<"pending", "approved">>, <<"approved", "prepared">>, <<"prepared", "distributed">>,
     <<"approved", "distributed">>, <<"pending", "rejected">>}

AidAdminActions ==
    {"AidRequestAdmin.approve_selected", "AidRequestAdmin.reject_selected",
     "AidRequestAdmin.mark_as_prepared", "AidRequestAdmin.mark_as_distributed"}

\* The status each AidRequest method leaves behind.
AidTarget(name) ==
    CASE name = "AidRequest.approve" -> "approved"
      [] name = "AidRequest.reject" -> "rejected"
      [] name = "AidRequest.prepare" -> "prepared"
      [] name = "AidRequest.distribute" -> "distributed"
      [] name = "AidRequest.cancel" -> "cancelled"
      [] OTHER -> "none"

C7_OnlyLedgerMutates ==
    [][Len(movements') = Len(movements) => item'.stock_amount = item.stock_amount]_vars

\* C8: StockMovement and Transaction rows are append-only: every row created
\* earlier still exists with the field values it was created with.
C8_AppendOnly ==
    [][/\ \A i \in 1..Len(movements) :
             i <= Len(movements') /\ movements'[i] = movements[i]
       /\ \A i \in 1..Len(transactions) :
             i <= Len(transactions') /\ transactions'[i] = transactions[i]]_vars

AidMethods ==
    {"AidRequest.approve", "AidRequest.reject", "AidRequest.prepare", "AidRequest.distribute"}
CashMethods == {"CashAid.approve", "CashAid.reject", "CashAid.pay"}
InvoiceMethods == {"PendingInvoice.reserve", "PendingInvoice.use"}
CountMethods == {"StockCount.complete"}
EntryPoints == AidMethods \cup CashMethods \cup InvoiceMethods \cup CountMethods

\* The status the workflow description requires before each entry point.
SourceStatus(name) ==
    CASE name \in {"AidRequest.approve", "AidRequest.reject",
                   "CashAid.approve", "CashAid.reject"} -> "pending"
      [] name = "AidRequest.prepare" -> "approved"
      [] name = "AidRequest.distribute" -> "prepared"
      [] name = "CashAid.pay" -> "approved"
      [] name = "PendingInvoice.reserve" -> "available"
      [] name = "PendingInvoice.use" -> "reserved"
      [] name = "StockCount.complete" -> "in_progress"

\* The status each entry point leaves behind.
TargetStatus(name) ==
    CASE name \in {"AidRequest.approve", "CashAid.approve"} -> "approved"
      [] name \in {"AidRequest.reject", "CashAid.reject"} -> "rejected"
      [] name = "AidRequest.prepare" -> "prepared"
      [] name = "AidRequest.distribute" -> "distributed"
      [] name = "CashAid.pay" -> "paid"
      [] name = "PendingInvoice.reserve" -> "reserved"
      [] name = "PendingInvoice.use" -> "used"
      [] name = "StockCount.complete" -> "completed"

\* The row an entry point is called on, before and after the call.
RowBefore(name, id) ==
    CASE name \in AidMethods -> aid_requests[id]
      [] name \in CashMethods -> cash_aids[id]
      [] name \in InvoiceMethods -> invoices[id]
      [] name \in CountMethods -> stock_counts[id]

RowAfter(name, id) ==
    CASE name \in AidMethods -> aid_requests'[id]
      [] name \in CashMethods -> cash_aids'[id]
      [] name \in InvoiceMethods -> invoices'[id]
      [] name \in CountMethods -> stock_counts'[id]

AdminSource(name) ==
    CASE name \in {"AidRequestAdmin.approve_selected", "AidRequestAdmin.reject_selected",
                   "CashAidAdmin.approve_selected", "CashAidAdmin.reject_selected"} ->
                {"pending"}
      [] name = "AidRequestAdmin.mark_as_prepared" -> {"approved"}
      [] name = "AidRequestAdmin.mark_as_distributed" -> {"approved", "prepared"}
      [] name = "CashAidAdmin.mark_as_paid" -> {"approved"}
      [] name = "StockCountAdmin.mark_as_completed" -> {"in_progress"}

AdminEntryPoints ==
    {"AidRequestAdmin.approve_selected", "AidRequestAdmin.reject_selected",
     "AidRequestAdmin.mark_as_prepared", "AidRequestAdmin.mark_as_distributed",
     "CashAidAdmin.approve_selected", "CashAidAdmin.reject_selected",
     "CashAidAdmin.mark_as_paid", "StockCountAdmin.mark_as_completed"}

\* Rows outside the given statuses are the same before and after the step.
OthersUnchanged(statuses) ==
    /\ \A r \in DOMAIN aid_requests :
          aid_requests[r].status \notin statuses => aid_requests'[r] = aid_requests[r]
    /\ \A c \in DOMAIN cash_aids :
          cash_aids[c].status \notin statuses => cash_aids'[c] = cash_aids[c]
    /\ \A c \in DOMAIN stock_counts :
          stock_counts[c].status \notin statuses => stock_counts'[c] = stock_counts[c]

C11_ApproveUnguarded ==
    [][(op'.name = "AidRequest.approve" /\ aid_requests[op'.id].status = "approved") =>
          /\ aid_requests'[op'.id] =
                [aid_requests[op'.id] EXCEPT !.approved_by = op'.arg,
                                             !.approved_at = now,
                                             !.approval_notes = [prefix |-> "", text |-> op'.notes]]
          /\ aid_requests'[op'.id].status = "approved"
          /\ aid_requests'[op'.id].approved_at > aid_requests[op'.id].approved_at
          /\ aid_requests'[op'.id] # aid_requests[op'.id]]_vars

\* C11 witness: u2 has just approved, with other notes, a request that
\* was already approved.
C11_Witness ==
    /\ op.name = "AidRequest.approve"
    /\ op.was = "approved"
    /\ op.arg = "u2"
    /\ aid_requests[op.id].status = "approved"
    /\ aid_requests[op.id].approved_by = "u2"
    /\ aid_requests[op.id].approved_at = now - 1
    /\ aid_requests[op.id].approved_at > 1
    /\ aid_requests[op.id].approval_notes.text = "n1"


\* C12: CashAid.pay on a CashAid in status approved sets the status paid and
\* creates exactly one Transaction: of type expense, of the CashAid's amount,
\* linked to that CashAid (and to no invoice); the earlier Transactions stay.
C12_PayApproved ==
    [][(op'.name = "CashAid.pay" /\ cash_aids[op'.id].status = "approved") =>
          /\ cash_aids'[op'.id].status = "paid"
          /\ cash_aids'[op'.id].amount = cash_aids[op'.id].amount
          /\ Len(transactions') = Len(transactions) + 1
          /\ SubSeq(transactions', 1, Len(transactions)) = transactions
          /\ transactions'[Len(transactions')].transaction_type = "expense"
          /\ transactions'[Len(transactions')].amount = cash_aids[op'.id].amount
          /\ transactions'[Len(transactions')].cash_aid = op'.id
          /\ transactions'[Len(transactions')].pending_invoice = 0]_vars

\* C12 witness: an approved CashAid has just been paid and the one
\* Transaction linked to it carries its amount.
C12_Witness ==
    /\ op.name = "CashAid.pay"
    /\ op.was = "approved"
    /\ cash_aids[op.id].status = "paid"
    /\ Cardinality({i \in 1..Len(transactions) : transactions[i].cash_aid = op.id}) = 1
    /\ transactions[Len(transactions)].cash_aid = op.id
    /\ transactions[Len(transactions)].transaction_type = "expense"
    /\ transactions[Len(transactions)].amount = cash_aids[op.id].amount
    /\ cash_aids[op.id].amount = MaxQty


CashAidStatus == {"pending", "approved", "paid", "rejected", "cancelled"}

\* The CashAid status changes the workflow description allows.
CashSpecTransitions ==
    {<<"pending", "approved">>, <<"approved", "paid">>, <<"pending", "rejected">>}
        \cup {<<s, "cancelled">> : s \in CashAidStatus}

\* The CashAid status changes the admin bulk actions make.
CashAdminTransitions ==
    {<<"pending", "approved">>, <<"approved", "paid">>, <<"pending", "rejected">>}

CashAdminActions ==
    {"CashAidAdmin.approve_selected", "CashAidAdmin.reject_selected",
     "CashAidAdmin.mark_as_paid"}

InvoiceAdminActions ==
    {"PendingInvoiceAdmin.mark_as_expired", "PendingInvoiceAdmin.mark_as_available"}

C15_Release ==
    /\ [](\A i \in DOMAIN invoices :
             invoices[i].status = "available" =>
                 /\ invoices[i].reserved_for = "None"
                 /\ invoices[i].reserved_at = 0
                 /\ invoices[i].reserved_by = "None")
    /\ [][op'.name = "PendingInvoiceAdmin.mark_as_available" =>
             /\ \A i \in DOMAIN invoices :
                   invoices'[i] # invoices[i] =>
                       /\ invoices[i].status = "reserved"
                       /\ invoices'[i] = [invoices[i] EXCEPT !.status = "available",
                                                             !.reserved_for = "None",
                                                             !.reserved_at = 0,
                                                             !.reserved_by = "None"]
             /\ Cardinality({i \in DOMAIN invoices : invoices'[i] # invoices[i]}) = op'.amount
             /\ transactions' = transactions]_vars

\* C15 witness: a release has just freed one reserved invoice while the
\* other invoice, which is used, kept its status.
C15_Witness ==
    /\ op.name = "PendingInvoiceAdmin.mark_as_available"
    /\ op.amount = 1
    /\ \E i, j \in DOMAIN invoices :
          /\ invoices[i].status = "available"
          /\ invoices[i].reserved_for = "None"
          /\ invoices[j].status = "used"
          /\ invoices[j].used_at # 0


\* C16: PendingInvoice.use(family) sets the status used and used_by_family
\* to the family, and creates exactly one Transaction: of type expense, of
\* the invoice's amount, linked to the invoice (and to no CashAid); the
\* earlier Transactions stay.
C16_Use ==
    [][op'.name = "PendingInvoice.use" =>
          /\ invoices'[op'.id].status = "used"
          /\ invoices'[op'.id].used_by_family = op'.arg
          /\ invoices'[op'.id].amount = invoices[op'.id].amount
          /\ Len(transactions') = Len(transactions) + 1
          /\ SubSeq(transactions', 1, Len(transactions)) = transactions
          /\ transactions'[Len(transactions')].transaction_type = "expense"
          /\ transactions'[Len(transactions')].amount = invoices[op'.id].amount
          /\ transactions'[Len(transactions')].pending_invoice = op'.id
          /\ transactions'[Len(transactions')].cash_aid = 0]_vars

\* C16 witness: a reserved invoice has just been used by family f2; its one
\* Transaction carries its amount.
C16_Witness ==
    /\ op.name = "PendingInvoice.use"
    /\ op.arg = "f2"
    /\ invoices[op.id].status = "used"
    /\ invoices[op.id].used_by_family = "f2"
    /\ invoices[op.id].reserved_at # 0
    /\ invoices[op.id].amount = MaxQty
    /\ Cardinality({t \in 1..Len(transactions) :
                       transactions[t].pending_invoice = op.id}) = 1
    /\ transactions[Len(transactions)].amount = MaxQty


TerminalTransitions == {"CashAid.pay", "PendingInvoice.use", "AidRequest.distribute"}

\* C17 as stated: pay, use and distribute each emit a Transaction or
\* StockMovement record, and the record changes the quantity of the related
\* Item: the account of a pay made with an account, the stock of a
\* distribute.
C17_TerminalMutatesQuantity ==
    [][op'.name \in TerminalTransitions =>
          /\ Len(transactions') > Len(transactions) \/ Len(movements') > Len(movements)
          /\ (op'.name = "AidRequest.distribute"
                \/ (op'.name = "CashAid.pay" /\ op'.account # 0)) =>
                 item'.stock_amount # item.stock_amount]_vars

\* C17 as amended: pay and use each emit one expense Transaction, which for
\* pay carries the account passed (none for use); distribute emits no
\* record. None of the three creates a StockMovement or changes the quantity
\* of the Item: a pay made with an account stores the account on the CashAid
\* and on the Transaction and leaves the account's quantity as it was.
C17_TerminalEmits ==
    [][op'.name \in TerminalTransitions =>
          /\ item' = item
          /\ movements' = movements
          /\ op'.name = "AidRequest.distribute" => transactions' = transactions
          /\ op'.name = "PendingInvoice.use" =>
                /\ Len(transactions') = Len(transactions) + 1
                /\ transactions'[Len(transactions')].transaction_type = "expense"
                /\ transactions'[Len(transactions')].account = 0
          /\ op'.name = "CashAid.pay" =>
                /\ Len(transactions') = Len(transactions) + 1
                /\ transactions'[Len(transactions')].transaction_type = "expense"
                /\ transactions'[Len(transactions')].account = op'.account
                /\ cash_aids'[op'.id].account =
                       (IF op'.account # 0 THEN op'.account
                        ELSE cash_aids[op'.id].account)]_vars

\* C17 witness: a CashAid has just been paid from account 1; the
\* Transaction names the account and the account holds what it held.
C17_Witness ==
    /\ op.name = "CashAid.pay"
    /\ op.account = 1
    /\ cash_aids[op.id].status = "paid"
    /\ cash_aids[op.id].account = 1
    /\ transactions[Len(transactions)].account = 1
    /\ transactions[Len(transactions)].amount >= 1
    /\ item.stock_amount = initial_stock
    /\ movements = <<>>


\* C18: AidRequest.distribute, called directly or by mark_as_distributed,
\* changes on a request only status, distributed_by and distributed_at; it
\* creates no StockMovement (and no Transaction), leaves the Item's quantity
\* unchanged and leaves the distributed_quantity of every AidItem unchanged.
C18_DistributeFrame ==
    [][/\ op'.name \in {"AidRequest.distribute", "AidRequestAdmin.mark_as_distributed"} =>
             /\ movements' = movements
             /\ item' = item
             /\ aid_items' = aid_items
             /\ transactions' = transactions
             /\ \A r \in DOMAIN aid_requests :
                   aid_requests'[r] # aid_requests[r] =>
                       aid_requests'[r] =
                           [aid_requests[r] EXCEPT !.status = "distributed",
                                                   !.distributed_by = op'.arg,
                                                   !.distributed_at = now]
       /\ op'.name = "AidRequest.distribute" =>
             /\ aid_requests'[op'.id].status = "distributed"
             /\ \A r \in DOMAIN aid_requests : r # op'.id => aid_requests'[r] = aid_requests[r]]_vars

\* C18 witness: a request has just been distributed while stock movements
\* exist; the stock is what the last movement left and the request's AidItem
\* still has no distributed_quantity.
C18_Witness ==
    /\ op.name = "AidRequest.distribute"
    /\ aid_requests[op.id].status = "distributed"
    /\ aid_requests[op.id].distributed_by = op.arg
    /\ Len(movements) >= 1
    /\ item.stock_amount = movements[Len(movements)].stock_after
    /\ \E k \in DOMAIN aid_items :
          /\ aid_items[k].aid_request = op.id
          /\ aid_items[k].distributed_quantity = NoQuantity


RECURSIVE RangeTotal(_, _, _, _)
\* The amounts of the first n Transactions that are of the type and dated
\* from lo to hi, both included, added up.
RangeTotal(n, type, lo, hi) ==
    IF n = 0 THEN 0
    ELSE RangeTotal(n - 1, type, lo, hi)
           + (IF /\ transactions[n].transaction_type = type
                 /\ lo <= transactions[n].transaction_date
                 /\ transactions[n].transaction_date <= hi
              THEN transactions[n].amount ELSE 0)

\* C19: actual_income (actual_expense) of a Budget is the sum of the amounts
\* of the income (expense) Transactions dated within [start_date, end_date],
\* bounds included, 0 when there is none; and reading the values changes no
\* row.
C19_ActualTotals ==
    /\ [](\A b \in DOMAIN budgets :
             /\ actual_income(budgets[b]) =
                    RangeTotal(Len(transactions), "income",
                               budgets[b].start_date, budgets[b].end_date)
             /\ actual_expense(budgets[b]) =
                    RangeTotal(Len(transactions), "expense",
                               budgets[b].start_date, budgets[b].end_date))
    /\ [][op'.name = "BudgetAdmin.change_view" =>
             /\ op'.actual_income =
                    RangeTotal(Len(transactions), "income",
                               budgets[op'.id].start_date, budgets[op'.id].end_date)
             /\ op'.actual_expense =
                    RangeTotal(Len(transactions), "expense",
                               budgets[op'.id].start_date, budgets[op'.id].end_date)
             /\ <<invVars, concVars, finVars, aidVars, countVars, budgetVars, refVars, cmsVars>>' =
                    <<invVars, concVars, finVars, aidVars, countVars, budgetVars, refVars, cmsVars>>]_vars

\* C19 witness: the budget has just been read with an income dated on its
\* end_date, which is counted, an income dated after it, which is not, and
\* no expense.
C19_Witness ==
    /\ op.name = "BudgetAdmin.change_view"
    /\ Len(transactions) = 2
    /\ budgets[op.id].end_date < MaxTime
    /\ \E i, j \in 1..Len(transactions) :
          /\ transactions[i].transaction_type = "income"
          /\ transactions[i].transaction_date = budgets[op.id].end_date
          /\ transactions[j].transaction_type = "income"
          /\ transactions[j].transaction_date > budgets[op.id].end_date
          /\ op.actual_income = transactions[i].amount
    /\ op.actual_expense = 0


\* C20: income_percentage is 0 whenever target_income is 0, whatever
\* actual_income is, and otherwise actual_income / target_income * 100;
\* expense_percentage likewise with target_expense. The quotient is stated
\* by cross-multiplication on the fraction returned.
C20_Percentage ==
    /\ [](\A b \in DOMAIN budgets :
             LET ai == RangeTotal(Len(transactions), "income",
                                  budgets[b].start_date, budgets[b].end_date)
                 ae == RangeTotal(Len(transactions), "expense",
                                  budgets[b].start_date, budgets[b].end_date)
                 ip == income_percentage(budgets[b])
                 ep == expense_percentage(budgets[b])
             IN  /\ ip.den > 0 /\ ep.den > 0
                 /\ IF budgets[b].target_income = 0 THEN ip.num = 0
                    ELSE ip.num * budgets[b].target_income = ai * 100 * ip.den
                 /\ IF budgets[b].target_expense = 0 THEN ep.num = 0
                    ELSE ep.num * budgets[b].target_expense = ae * 100 * ep.den)
    /\ [][op'.name = "BudgetAdmin.change_view" =>
             /\ op'.income_percentage = income_percentage(budgets[op'.id])
             /\ op'.expense_percentage = expense_percentage(budgets[op'.id])
             /\ budgets[op'.id].target_income = 0 => op'.income_percentage.num = 0
             /\ budgets[op'.id].target_expense = 0 => op'.expense_percentage.num = 0]_vars

\* C20 witness: a budget with target_income 0 has just been read: its
\* actual_income is positive and its income_percentage 0, while its
\* expense_percentage, of an expense of 1 on a positive target, is not.
C20_Witness ==
    /\ op.name = "BudgetAdmin.change_view"
    /\ budgets[op.id].target_income = 0
    /\ op.actual_income > 0
    /\ op.income_percentage = [num |-> 0, den |-> 1]
    /\ budgets[op.id].target_expense = MaxQty
    /\ op.actual_expense = 1
    /\ op.expense_percentage.num > 0
    /\ op.expense_percentage.num * MaxQty = 100 * op.expense_percentage.den

\* C21: for every StockCountItem, discrepancy is counted_quantity minus
\* system_quantity, and discrepancy_percentage is 0 when system_quantity is 0
\* and discrepancy / system_quantity * 100 otherwise; the changelist shows
\* these values.
C21_Discrepancy ==
    /\ [](\A k \in 1..Len(count_items) :
             LET line == count_items[k]
                 d == discrepancy(line)
                 p == discrepancy_percentage(line)
             IN  /\ d + line.system_quantity = line.counted_quantity
                 /\ has_discrepancy(line) <=> line.counted_quantity # line.system_quantity
                 /\ p.den > 0
                 /\ IF line.system_quantity = 0 THEN p.num = 0
                    ELSE p.num * line.system_quantity = d * 100 * p.den)
    /\ [][op'.name = "StockCountItemAdmin.changelist_view" =>
             LET line == count_items[op'.id]
                 p == op'.discrepancy_percentage
             IN  /\ op'.discrepancy = line.counted_quantity - line.system_quantity
                 /\ line.system_quantity = 0 => p.num = 0
                 /\ line.system_quantity # 0 =>
                       p.num * line.system_quantity =
                           (line.counted_quantity - line.system_quantity) * 100 * p.den]_vars

\* C21 witness: a line of system quantity MaxQty counted as 0 is shown with
\* discrepancy -MaxQty and -100 percent.
C21_Witness ==
    /\ op.name = "StockCountItemAdmin.changelist_view"
    /\ count_items[op.id].system_quantity = MaxQty
    /\ count_items[op.id].counted_quantity = 0
    /\ op.discrepancy = 0 - MaxQty
    /\ op.has_discrepancy
    /\ op.discrepancy_percentage = [num |-> 0 - 100, den |-> 1]

\* C22: a new StockCountItem stores the Item's stock_amount of that moment as
\* its system_quantity, and no later step (a StockMovement recorded against
\* the Item among them) changes a stored line.
C22_SnapshotsSystemQuantity ==
    /\ [][op'.name = "StockCountItemInline.save" =>
             count_items'[op'.id].system_quantity = item.stock_amount]_vars
    /\ [][\A k \in 1..Len(count_items) : count_items'[k] = count_items[k]]_vars

\* Some StockMovement, AidItem or StockCountItem row points at Item pk.
ItemReferenced(pk) ==
    \/ \E i \in 1..Len(movements) : movements[i].item = pk
    \/ \E k \in DOMAIN aid_items : aid_items[k].item = pk
    \/ \E k \in 1..Len(count_items) : count_items[k].item = pk

\* C23: deleting an Item that a StockMovement, an AidItem or a
\* StockCountItem references is refused: the delete raises, and the Item and
\* every row that references it stay as they were.
C23_ItemDeleteRefused ==
    [][op'.name = "Item.delete" /\ ItemReferenced(op'.id) =>
          /\ op'.ret = "ProtectedError"
          /\ item_pks' = item_pks
          /\ item' = item
          /\ movements' = movements
          /\ aid_items' = aid_items
          /\ count_items' = count_items
          /\ finVars' = finVars]_vars

\* C23 witness: the delete of an Item that only a StockCountItem references
\* was refused.
C23_Witness ==
    /\ op.name = "Item.delete"
    /\ op.ret = "ProtectedError"
    /\ op.id \in item_pks
    /\ Len(movements) = 0
    /\ DOMAIN aid_items = {}
    /\ \E k \in 1..Len(count_items) : count_items[k].item = op.id

\* C24: deleting a Family that an AidRequest or a StockMovement references
\* is refused: the delete raises, and the Family and the referencing rows,
\* their family reference included, stay as they were.
C24_FamilyDeleteRefused ==
    [][/\ op'.name = "Family.delete"
       /\ \/ \E r \in DOMAIN aid_requests : aid_requests[r].family = op'.arg
          \/ \E i \in 1..Len(movements) : movements[i].family = op'.arg
       => /\ op'.ret = "ProtectedError"
          /\ family_pks' = family_pks
          /\ aid_requests' = aid_requests
          /\ movements' = movements]_vars

\* C25: the SiteSettings record is a singleton. After any sequence of save
\* (on any instance, new or loaded), delete and load there is at most one
\* row and its pk is 1; delete never removes it; load returns the existing
\* row, or creates it when there is none.
C25_Singleton ==
    /\ [](/\ DOMAIN site_settings \subseteq {1}
          /\ \A k \in DOMAIN site_settings : site_settings[k].pk = 1)
    /\ [][op'.name = "SiteSettings.delete" => site_settings' = site_settings]_vars
    /\ [][op'.name = "SiteSettings.load" =>
             /\ DOMAIN site_settings' = {1}
             /\ settings_obj' = site_settings'[1]
             /\ IF 1 \in DOMAIN site_settings
                THEN site_settings' = site_settings /\ op'.ret = "found"
                ELSE op'.ret = "created"]_vars

\* C25 witness: an instance built with pk MaxPk was saved while the row
\* existed: it replaced row 1 and no second row appeared.
C25_Witness ==
    /\ op.name = "SiteSettings.save"
    /\ op.id = MaxPk
    /\ op.arg = "s2"
    /\ DOMAIN site_settings = {1}
    /\ site_settings[1] = NewSiteSettings(1, "s2")

\* C26: with payment driven by the admin action mark_as_paid, no CashAid
\* ever has more than one Transaction linked to it, also when two
\* mark_as_paid requests that selected the same approved CashAid run
\* concurrently.
C26_OneTransactionPerCashAid ==
    \A c \in DOMAIN cash_aids :
        Cardinality({i \in 1..Len(transactions) : transactions[i].cash_aid = c}) <= 1

\* C27: an invoice reserved for a family is applied only to that family: a
\* used invoice that carries a reservation was used by the family it was
\* reserved for, and a reserve on an invoice already reserved for one
\* family does not put another family in its place.
C27_ReservedFamilyOnly ==
    /\ [](\A i \in DOMAIN invoices :
             invoices[i].status = "used" /\ invoices[i].reserved_for # "None" =>
                 invoices[i].used_by_family = invoices[i].reserved_for)
    /\ [][\A i \in DOMAIN invoices :
             /\ op'.name = "PendingInvoice.reserve"
             /\ op'.id = i
             /\ invoices[i].status = "reserved"
             => invoices'[i].reserved_for = invoices[i].reserved_for]_vars

\* C28: with AidRequests changed only through the admin bulk actions,
\* distributed, rejected and cancelled are absorbing (such a request never
\* changes again), each action changes only requests that are in the status
\* it filters on, and every approved, prepared or distributed request has
\* its approver and approval time recorded.
C28_AdminAbsorbing ==
    /\ [][\A r \in DOMAIN aid_requests :
             aid_requests[r].status \in {"distributed", "rejected", "cancelled"} =>
                 aid_requests'[r] = aid_requests[r]]_vars
    /\ [][\A r \in DOMAIN aid_requests :
             aid_requests'[r] # aid_requests[r] =>
                 /\ op'.name \in AidAdminActions
                 /\ aid_requests[r].status \in AdminSource(op'.name)]_vars
    /\ [](\A r \in DOMAIN aid_requests :
             aid_requests[r].status \in {"approved", "prepared", "distributed"} =>
                 /\ aid_requests[r].approved_by \in Users
                 /\ aid_requests[r].approved_at >= 1)

\* C28 witness: mark_as_distributed, run by another user than the approver,
\* has distributed the one request it could, and the request next to it is
\* still cancelled.
C28_Witness ==
    /\ op.name = "AidRequestAdmin.mark_as_distributed"
    /\ op.amount = 1
    /\ \E r, q \in DOMAIN aid_requests :
          /\ aid_requests[r].status = "distributed"
          /\ aid_requests[r].distributed_by = op.arg
          /\ aid_requests[r].approved_by \in Users \ {op.arg}
          /\ aid_requests[q].status = "cancelled"
          /\ aid_requests[q].approved_by = "None"

\* C29: with requests served one after another, the StockMovements of the
\* Item form an unbroken chain: in order of creation each stock_before is
\* the stock_after of the movement before it (the first one's is the
\* initial stock), and the last stock_after is the Item's current stock.
C29_AuditChain ==
    /\ \A i \in 1..Len(movements) :
          movements[i].stock_before =
              IF i = 1 THEN initial_stock ELSE movements[i - 1].stock_after
    /\ Len(movements) >= 1 => movements[Len(movements)].stock_after = item.stock_amount

\* C30: with count sessions driven by the admin actions, a session becomes
\* completed only from in_progress and in_progress only from planned;
\* completed and cancelled sessions never change; a session is completed
\* exactly when its completed_at is set; and completing sessions changes
\* neither the Item's stock nor the StockMovements, whatever the
\* discrepancies of their lines.
C30_CountSessions ==
    /\ [][\A c \in DOMAIN stock_counts :
             stock_counts'[c].status # stock_counts[c].status =>
                 \/ /\ stock_counts[c].status = "in_progress"
                    /\ stock_counts'[c].status = "completed"
                 \/ /\ stock_counts[c].status = "planned"
                    /\ stock_counts'[c].status = "in_progress"]_vars
    /\ [][\A c \in DOMAIN stock_counts :
             stock_counts[c].status \in {"completed", "cancelled"} =>
                 stock_counts'[c] = stock_counts[c]]_vars
    /\ [](\A c \in DOMAIN stock_counts :
             stock_counts[c].status = "completed" <=> stock_counts[c].completed_at # 0)
    /\ [][op'.name = "StockCountAdmin.mark_as_completed" =>
             /\ item' = item
             /\ movements' = movements
             /\ count_items' = count_items]_vars

\* C30 witness: mark_as_completed has just completed a session whose line
\* counted nothing of an Item the system holds MaxInit of; the stock is
\* still MaxInit and no StockMovement exists.
C30_Witness ==
    /\ op.name = "StockCountAdmin.mark_as_completed"
    /\ op.amount = 1
    /\ \E c \in DOMAIN stock_counts, k \in 1..Len(count_items) :
          /\ stock_counts[c].status = "completed"
          /\ stock_counts[c].completed_at = now - 1
          /\ count_items[k].stock_count = c
          /\ count_items[k].system_quantity = MaxInit
          /\ count_items[k].counted_quantity = 0
    /\ item.stock_amount = MaxInit
    /\ movements = <<>>
====
